---- MODULE Spec2Model ----
(***************************************************************************)
(* Vimshottari dasha timeline builder of backend/app/astro/dasha.py.       *)
(*                                                                         *)
(* Time.  A datetime is an integer count of ticks, the tick being the      *)
(* resolution of datetime/timedelta.  A year of 365.25 days is             *)
(* DAYS_PER_YEAR ticks; like the real 31 557 600 000 000 microseconds it   *)
(* is a multiple of 120 * 120, so that the 120-part subdivision of a full  *)
(* Mahadasha and of a full Antardasha lands on whole ticks, while the      *)
(* subdivision of an arbitrary interval does not and is rounded by         *)
(* timedelta to the nearest tick (ties to even).                           *)
(* A float number of days is the exact rational num / den ticks.           *)
(* durationDays is kept in units of 1/CYCLE_YEARS tick.                    *)
(*                                                                         *)
(* Longitude.  The unit is a tenth of a nakshatra (1 deg 20 min), so the   *)
(* 13 deg 20 min span is NAKSHATRA_SPAN_DEG units and 360 deg is           *)
(* FULL_CIRCLE units.                                                      *)
(***************************************************************************)
EXTENDS Integers, Sequences, FiniteSets, TLC

DASHA_LORDS ==
    <<"Ketu", "Venus", "Sun", "Moon", "Mars", "Rahu", "Jupiter", "Saturn", "Mercury">>

DASHA_YEARS_short_sun ==
    [Ketu |-> 7, Venus |-> 20, Sun |-> 5, Moon |-> 10, Mars |-> 7,
     Rahu |-> 18, Jupiter |-> 16, Saturn |-> 19, Mercury |-> 17]

DASHA_YEARS ==
    [Ketu |-> 7, Venus |-> 20, Sun |-> 6, Moon |-> 10, Mars |-> 7,
     Rahu |-> 18, Jupiter |-> 16, Saturn |-> 19, Mercury |-> 17]

DAYS_PER_YEAR == 14400

NAKSHATRA_SPAN_DEG == 10

FULL_CIRCLE == 270

CYCLE_YEARS == 120

NUM_LORDS == 9

None == <<>>

Some(x) == <<x>>

Val(opt) == opt[1]

Max(a, b) == IF a >= b THEN a ELSE b

Min(a, b) == IF a <= b THEN a ELSE b

(* list.index: 0-based position of a lord in DASHA_LORDS *)
LordIndex(lord) == (CHOOSE i \in 1..Len(DASHA_LORDS) : DASHA_LORDS[i] = lord) - 1

(* timedelta(days=num/den): nearest tick, ties to the even tick *)
RoundHalfEven(num, den) ==
    LET q == num \div den
        r == num % den
    IN  IF 2 * r < den THEN q
        ELSE IF 2 * r > den THEN q + 1
        ELSE IF q % 2 = 0 THEN q ELSE q + 1

_add_days(dt, num, den) == dt + RoundHalfEven(num, den)

(* isoformat(): the text carries the year field and the rest down to the   *)
(* last tick; fromisoformat() reads both back.                             *)
isoformat(dt) == <<dt \div DAYS_PER_YEAR, dt % DAYS_PER_YEAR>>

fromisoformat(s) == s[1] * DAYS_PER_YEAR + s[2]

_nakshatra_index_and_fraction(longitude_sidereal) ==
    LET lon == longitude_sidereal % FULL_CIRCLE
        idx0 == lon \div NAKSHATRA_SPAN_DEG
        within == lon - idx0 * NAKSHATRA_SPAN_DEG
    IN  [idx0 |-> idx0, within |-> within]

seq_from_next(start_index, items) ==
    [i \in 1..Len(items) |-> items[((start_index + i) % Len(items)) + 1]]

_seq_from(start_index, items) ==
    [i \in 1..Len(items) |-> items[((start_index + (i - 1)) % Len(items)) + 1]]

_overlaps(a_start, a_end, window_start, window_end) ==
    ~(a_end <= window_start \/ a_start >= window_end)

_trim_to_window(start, end, window_start, window_end) ==
    [s |-> IF start >= window_start THEN start ELSE window_start,
     e |-> IF end <= window_end THEN end ELSE window_end]

(* the record every level emits; dur in 1/CYCLE_YEARS ticks *)
Period(lord, level, s, e, dur) ==
    [lord |-> lord, level |-> level, start |-> isoformat(s), end |-> isoformat(e),
     durationDays |-> dur, yearsShare |-> DASHA_YEARS[lord]]

(* (e - s).total_seconds() / 86400.0 *)
total_days(s, e) == (e - s) * CYCLE_YEARS

WithActiveClosedEnd(entry, at_dt) ==
    IF at_dt = None THEN entry
    ELSE entry @@ [active |-> (fromisoformat(entry.start) <= Val(at_dt)
                               /\ Val(at_dt) <= fromisoformat(entry.end))]

(* entry["active"] = bool(s <= at_dt < e), only when at_dt is given *)
WithActive(entry, at_dt) ==
    IF at_dt = None THEN entry
    ELSE entry @@ [active |-> (fromisoformat(entry.start) <= Val(at_dt)
                               /\ Val(at_dt) < fromisoformat(entry.end))]

RECURSIVE SubCursorParentShare(_, _, _, _)
SubCursorParentShare(parent_start, duration, sub_lords, i) ==
    IF i = 1 THEN parent_start
    ELSE _add_days(SubCursorParentShare(parent_start, duration, sub_lords, i - 1),
                   duration * DASHA_YEARS[sub_lords[1]], CYCLE_YEARS)

RECURSIVE SubCursor(_, _, _, _)
(* the cursor of _subdivide before its i-th child (i = 1..10) *)
SubCursor(parent_start, duration, sub_lords, i) ==
    IF i = 1 THEN parent_start
    ELSE _add_days(SubCursor(parent_start, duration, sub_lords, i - 1),
                  duration * DASHA_YEARS[sub_lords[i - 1]], CYCLE_YEARS)

_subdivide(parent_start, parent_end, parent_lord, level) ==
    LET duration_days == parent_end - parent_start
        start_index == LordIndex(parent_lord)
        sub_lords == _seq_from(start_index, DASHA_LORDS)
    IN  [i \in 1..Len(sub_lords) |->
            Period(sub_lords[i], level,
                   SubCursor(parent_start, duration_days, sub_lords, i),
                   SubCursor(parent_start, duration_days, sub_lords, i + 1),
                   duration_days * DASHA_YEARS[sub_lords[i]])]

(* nested helper of calculate_vimshottari_timeline: subdivides the         *)
(* interval it is handed, with no clipping                                 *)
attach_children(node, start_dt, end_dt, lord, depth, at_dt) ==
    IF depth < 2 THEN node
    ELSE
      LET level2 == _subdivide(start_dt, end_dt, lord, 2)
          Child(c) ==
              LET c1 == WithActive(c, at_dt)
                  level3 == _subdivide(fromisoformat(c.start), fromisoformat(c.end),
                                       c.lord, 3)
              IN  IF depth >= 3
                  THEN c1 @@ [pratyantardasha |->
                                 [j \in 1..Len(level3) |-> WithActive(level3[j], at_dt)]]
                  ELSE c1
      IN  node @@ [antardasha |-> [i \in 1..Len(level2) |-> Child(level2[i])]]

(* children of one parent: canonical subdivision of the full parent        *)
(* interval, clipped to [visible_start, visible_end]                       *)
Level3Clipped(s2_full, e2_full, lord2, visible_start, visible_end, at_dt) ==
    LET level3_full == _subdivide(s2_full, e2_full, lord2, 3)
        kept == SelectSeq(level3_full,
                    LAMBDA cc_full : _overlaps(fromisoformat(cc_full.start),
                                               fromisoformat(cc_full.end),
                                               visible_start, visible_end))
    IN  [j \in 1..Len(kept) |->
            LET t == _trim_to_window(fromisoformat(kept[j].start),
                                     fromisoformat(kept[j].end),
                                     visible_start, visible_end)
            IN  WithActive(Period(kept[j].lord, 3, t.s, t.e, total_days(t.s, t.e)),
                           at_dt)]

build_children_rescaled(node, parent_lord, parent_start_full, parent_end_full, visible_start, visible_end, depth, at_dt) ==
    attach_children(node, visible_start, visible_end, parent_lord, depth, at_dt)

_build_children_with_full_parent(node, parent_lord, parent_start_full, parent_end_full, visible_start, visible_end, depth, at_dt) ==
    IF depth < 2 THEN node
    ELSE
      LET level2_full == _subdivide(parent_start_full, parent_end_full, parent_lord, 2)
          kept == SelectSeq(level2_full,
                      LAMBDA c_full : _overlaps(fromisoformat(c_full.start),
                                                fromisoformat(c_full.end),
                                                visible_start, visible_end))
          Entry(c_full) ==
              LET s2_full == fromisoformat(c_full.start)
                  e2_full == fromisoformat(c_full.end)
                  t == _trim_to_window(s2_full, e2_full, visible_start, visible_end)
                  entry == WithActive(Period(c_full.lord, 2, t.s, t.e,
                                             total_days(t.s, t.e)), at_dt)
                  level3 == Level3Clipped(s2_full, e2_full, c_full.lord,
                                          visible_start, visible_end, at_dt)
              IN  IF depth >= 3 /\ Len(level3) > 0
                  THEN entry @@ [pratyantardasha |-> level3]
                  ELSE entry
          level2 == [i \in 1..Len(kept) |-> Entry(kept[i])]
      IN  IF Len(level2) > 0 THEN node @@ [antardasha |-> level2] ELSE node

(***************************************************************************)
(* Inputs of a call.  Window and as-of instants lie on a grid around the   *)
(* birth instant: whole multiples of GridStep, each also shifted by up to  *)
(* MaxJitter ticks so that cuts fall off the 120-part grid as well as on   *)
(* it.                                                                     *)
(***************************************************************************)
MaxGrid == 2

MaxJitter == 1

MaxDepth == 4

GridStep == 6 * DAYS_PER_YEAR

Births == {2000 * DAYS_PER_YEAR + 7200}

MoonLons == {-3, 0, 2, 17}

Instants(b) == {b + i * GridStep + j : i \in (-1)..MaxGrid, j \in 0..MaxJitter}

AtInstants(b) == {b + 2 * GridStep - 1, b + 2 * GridStep}

Opt(S) == {None} \cup {Some(x) : x \in S}

VARIABLES args, pc, cursor, k, timeline, metadata, query, answer, _current_ayanamsha_key, sid_mode, requests, now, state_tokens, sessions, users, approved_users, profiles, charts, notes, calls, history

vars == <<args, pc, cursor, k, timeline, metadata, query, answer, _current_ayanamsha_key, sid_mode, requests, now, state_tokens, sessions, users, approved_users, profiles, charts, notes, calls, history>>

(* the state of one call of calculate_vimshottari_timeline *)
dashaVars == <<args, pc, cursor, k, timeline, metadata>>

(* a call of a degree-mapping or house function: its inputs and result *)
callVars == <<query, answer>>

(* the process-wide ayanamsha setting and the chart requests in flight *)
engineVars == <<_current_ayanamsha_key, sid_mode, requests>>

(* the web application: the clock, the in-memory stores of auth.py, the    *)
(* tables of models.py, the requests being handled and what has happened   *)
authVars == <<now, state_tokens, sessions>>

tableVars == <<users, approved_users, profiles, charts, notes>>

serverVars == <<authVars, tableVars, calls, history>>

ServerIdle ==
    /\ now = 0
    /\ state_tokens = <<>>
    /\ sessions = <<>>
    /\ users = {}
    /\ approved_users = {}
    /\ profiles = {}
    /\ charts = {}
    /\ notes = {}
    /\ calls = <<>>
    /\ history = <<>>

(* no chart function is being called and no chart request is in flight *)
ChartIdle ==
    /\ query = None
    /\ answer = None
    /\ _current_ayanamsha_key = None
    /\ sid_mode = None
    /\ requests = <<>>

(* ---- locals of calculate_vimshottari_timeline, functions of the args ---- *)
depth_unclamped == args.depth

depth == IF args.depth < 1 THEN 1 ELSE IF args.depth > 3 THEN 3 ELSE args.depth

birth_utc == args.birth_utc

window_start == IF args.from_date = None THEN birth_utc ELSE Val(args.from_date)

window_end_one_dasha_short ==
    IF args.to_date = None
    THEN _add_days(birth_utc, (CYCLE_YEARS - 6) * DAYS_PER_YEAR, 1)
    ELSE Val(args.to_date)

window_end ==
    IF args.to_date = None
    THEN _add_days(birth_utc, CYCLE_YEARS * DAYS_PER_YEAR, 1)
    ELSE Val(args.to_date)

at_dt == args.at_date

nak == _nakshatra_index_and_fraction(args.moon_longitude_sidereal)

start_lord == DASHA_LORDS[(nak.idx0 % 9) + 1]

total_years_first == DASHA_YEARS[start_lord]

balance_days_elapsed == nak.within * total_years_first * DAYS_PER_YEAR

(* balance_days = (1 - frac) * total_years_first * DAYS_PER_YEAR, frac = within / span *)
balance_days_num == (NAKSHATRA_SPAN_DEG - nak.within) * total_years_first * DAYS_PER_YEAR

(* consumed_years_before_birth * DAYS_PER_YEAR *)
consumed_days_num == nak.within * total_years_first * DAYS_PER_YEAR

first_end == _add_days(birth_utc, balance_days_num, NAKSHATRA_SPAN_DEG)

(* line 295: the lord of the k-th Mahadasha after the first *)
sweep_lord_skipping(lord_index, kk) == DASHA_LORDS[((lord_index + kk + 1) % 9) + 1]

sweep_lord(lord_index, kk) == DASHA_LORDS[((lord_index + kk) % 9) + 1]

Init ==
    /\ args \in [birth_utc : Births,
                  moon_longitude_sidereal : MoonLons,
                  depth : 0..MaxDepth,
                  from_date : UNION {Opt(Instants(b)) : b \in Births},
                  to_date : UNION {Opt(Instants(b)) : b \in Births},
                  at_date : UNION {Opt(AtInstants(b)) : b \in Births}]
    /\ pc = "first"
    /\ cursor = args.birth_utc
    /\ k = 0
    /\ timeline = <<>>
    /\ metadata = None
    /\ ChartIdle
    /\ ServerIdle

(* lines 250-293: the remainder of the Mahadasha running at birth *)
FirstMahadasha ==
    /\ pc = "first"
    /\ LET current_lord == start_lord
           t == _trim_to_window(cursor, first_end, window_start, window_end)
           node == WithActive(Period(current_lord, 1, t.s, t.e, total_days(t.s, t.e)),
                              at_dt)
           maha_start_full == _add_days(cursor, -consumed_days_num, NAKSHATRA_SPAN_DEG)
           maha_end_full == _add_days(maha_start_full,
                                      total_years_first * DAYS_PER_YEAR, 1)
           visible_start == Max(birth_utc, window_start)
           visible_end == Min(maha_end_full, window_end)
       IN  timeline' =
             IF _overlaps(cursor, first_end, window_start, window_end)
             THEN Append(timeline,
                         _build_children_with_full_parent(
                             node, current_lord, maha_start_full, maha_end_full,
                             visible_start, visible_end, depth, at_dt))
             ELSE timeline
    /\ cursor' = first_end
    /\ k' = 1
    /\ pc' = "sweep"
    /\ UNCHANGED <<args, metadata>>
    /\ UNCHANGED <<callVars, engineVars, serverVars>>

(* lines 294-334: one iteration of the while loop *)
SweepStep ==
    /\ pc = "sweep"
    /\ cursor < window_end
    /\ LET lord_index == LordIndex(start_lord)
           lord == sweep_lord(lord_index, k)
           years == DASHA_YEARS[lord]
           start_dt == cursor
           end_dt == _add_days(start_dt, years * DAYS_PER_YEAR, 1)
           t == _trim_to_window(start_dt, end_dt, window_start, window_end)
           node == WithActive(Period(lord, 1, t.s, t.e, total_days(t.s, t.e)), at_dt)
           is_last_truncated == end_dt > window_end /\ start_dt < window_end
       IN  /\ timeline' =
                IF _overlaps(start_dt, end_dt, window_start, window_end)
                THEN Append(timeline,
                        IF depth >= 2 /\ is_last_truncated
                        THEN _build_children_with_full_parent(
                                 node, lord, start_dt, end_dt,
                                 window_start, window_end, depth, at_dt)
                        ELSE attach_children(node, t.s, t.e, lord, depth, at_dt))
                ELSE timeline
           /\ cursor' = end_dt
    /\ k' = k + 1
    /\ UNCHANGED <<args, pc, metadata>>
    /\ UNCHANGED <<callVars, engineVars, serverVars>>

(* lines 336-342: the loop has ended; build the metadata and return *)
Return ==
    /\ pc = "sweep"
    /\ ~(cursor < window_end)
    /\ metadata' = Some([system |-> "vimshottari", depth |-> depth,
                         fromDate |-> isoformat(window_start),
                         toDate |-> isoformat(window_end)])
    /\ pc' = "done"
    /\ UNCHANGED <<args, cursor, k, timeline>>
    /\ UNCHANGED <<callVars, engineVars, serverVars>>

Next == FirstMahadasha \/ SweepStep \/ Return

Spec == Init /\ [][Next]_vars

(* the control flow of Next alone: which statement runs next and how it    *)
(* moves pc and k.  Under Spec a step changes <<pc, k>> exactly when it is *)
(* a Next step, and Control is enabled exactly when Next is.               *)
Control ==
    \/ pc = "first" /\ pc' = "sweep" /\ k' = 1
    \/ pc = "sweep" /\ cursor < window_end /\ pc' = pc /\ k' = k + 1
    \/ pc = "sweep" /\ ~(cursor < window_end) /\ pc' = "done" /\ k' = k

(* the function body is sequential code run by one thread: a statement     *)
(* that can run does run                                                   *)
FairSpec == Spec /\ WF_<<pc, k>>(Control)

TypeOK ==
    /\ pc \in {"first", "sweep", "done"}
    /\ k \in Nat
    /\ \A i \in 1..Len(timeline) : timeline[i].level = 1

(***************************************************************************)
(* Reading the returned tree.                                              *)
(***************************************************************************)
S(n) == fromisoformat(n.start)

E(n) == fromisoformat(n.end)

Kids(n) ==
    IF n.level = 1 /\ "antardasha" \in DOMAIN n THEN n.antardasha
    ELSE IF n.level = 2 /\ "pratyantardasha" \in DOMAIN n THEN n.pratyantardasha
    ELSE <<>>

(* P holds of every emitted period, at every level *)
ForAllNodes(P(_)) ==
    \A i \in DOMAIN timeline :
        /\ P(timeline[i])
        /\ \A j \in DOMAIN Kids(timeline[i]) :
              /\ P(Kids(timeline[i])[j])
              /\ \A l \in DOMAIN Kids(Kids(timeline[i])[j]) :
                    P(Kids(Kids(timeline[i])[j])[l])

ExistsNode(P(_)) == ~ForAllNodes(LAMBDA n : ~P(n))

RECURSIVE SumDur(_, _)
SumDur(seq, n) == IF n = 0 THEN 0 ELSE SumDur(seq, n - 1) + seq[n].durationDays

(* the sweep as the specification describes it: Mahadasha i = 0, 1, ... of  *)
(* the cycle that is running at birth, with its full calendar interval      *)
MahaLord(i) == DASHA_LORDS[((LordIndex(start_lord) + i) % NUM_LORDS) + 1]

RECURSIVE MahaFullStart(_)
MahaFullStart(i) ==
    IF i = 0
    THEN birth_utc - RoundHalfEven(consumed_days_num, NAKSHATRA_SPAN_DEG)
    ELSE MahaFullStart(i - 1) + DASHA_YEARS[MahaLord(i - 1)] * DAYS_PER_YEAR

MahaFullEnd(i) == MahaFullStart(i) + DASHA_YEARS[MahaLord(i)] * DAYS_PER_YEAR

(* the part of Mahadasha i that lies after birth *)
MahaSweepStart(i) == IF i = 0 THEN birth_utc ELSE MahaFullStart(i)

(* the sweep index of an emitted level-1 period *)
SweepIndex(m) ==
    CHOOSE i \in 0..k : /\ MahaLord(i) = m.lord
                        /\ S(m) = Max(MahaSweepStart(i), window_start)

HasSweepIndex(m) ==
    \E i \in 0..k : /\ MahaLord(i) = m.lord
                     /\ S(m) = Max(MahaSweepStart(i), window_start)

VisibleStart == Max(birth_utc, window_start)

(* the canonical 120-part share of lord number j (1..9, counted from the    *)
(* parent's own lord) within the full interval [ps, ps + d): exact          *)
(* rational bounds, times CYCLE_YEARS                                       *)
RECURSIVE ShareBefore(_, _)
ShareBefore(parent_lord, j) ==
    IF j = 1 THEN 0
    ELSE ShareBefore(parent_lord, j - 1)
         + DASHA_YEARS[DASHA_LORDS[((LordIndex(parent_lord) + j - 2) % NUM_LORDS) + 1]]

CanonLord(parent_lord, j) ==
    DASHA_LORDS[((LordIndex(parent_lord) + j - 1) % NUM_LORDS) + 1]

(* position 1..9 of a child lord in the cycle that starts at the parent's lord *)
CanonPos(parent_lord, child_lord) ==
    ((LordIndex(child_lord) - LordIndex(parent_lord)) % NUM_LORDS) + 1

(* canonical Antardasha j of a full Mahadasha [ps, ps + d): [start, end) *)
Canon2Start(ps, d, parent_lord, j) == ps + (d \div CYCLE_YEARS) * ShareBefore(parent_lord, j)

Canon2End(ps, d, parent_lord, j) == Canon2Start(ps, d, parent_lord, j + 1)

(* a level-1 period is reported whole: neither birth nor the window cut it *)
Whole1(m) ==
    /\ S(m) = MahaFullStart(SweepIndex(m))
    /\ E(m) = MahaFullEnd(SweepIndex(m))

(* a level-2 period c under the level-1 period m is reported whole: its     *)
(* bounds are those of the canonical Antardasha of its lord                 *)
Whole2(m, c) ==
    LET i == SweepIndex(m)
        ps == MahaFullStart(i)
        d == MahaFullEnd(i) - MahaFullStart(i)
        j == CanonPos(m.lord, c.lord)
    IN  /\ S(c) = Canon2Start(ps, d, m.lord, j)
        /\ E(c) = Canon2End(ps, d, m.lord, j)

(* the 120-part rule, written out for a parent [ps, pe) ruled by plord and  *)
(* its listed children ch                                                   *)
NinePartTiling(ps, pe, plord, ch) ==
    /\ Len(ch) = NUM_LORDS
    /\ \A j \in 1..NUM_LORDS :
          /\ ch[j].lord = CanonLord(plord, j)
          /\ ch[j].durationDays = (pe - ps) * DASHA_YEARS[ch[j].lord]
          /\ (S(ch[j]) - ps) * CYCLE_YEARS = (pe - ps) * ShareBefore(plord, j)
          /\ (E(ch[j]) - S(ch[j])) * CYCLE_YEARS = ch[j].durationDays
    /\ S(ch[1]) = ps
    /\ E(ch[NUM_LORDS]) = pe
    /\ SumDur(ch, NUM_LORDS) = total_days(ps, pe)

(* children tile the reported interval of their parent *)
Tiles(n, ch) ==
    /\ S(ch[1]) = S(n)
    /\ E(ch[Len(ch)]) = E(n)
    /\ \A j \in 1..(Len(ch) - 1) : E(ch[j]) = S(ch[j + 1])
    /\ SumDur(ch, Len(ch)) = total_days(S(n), E(n))
    /\ SumDur(ch, Len(ch)) = n.durationDays

(***************************************************************************)
(* C1.  Every emitted Antardasha and Pratyantardasha is reported as the    *)
(* intersection of a canonical sub-period -- a 120-part share of the       *)
(* parent's full, un-truncated interval -- with the visible range          *)
(* [max(birth, windowStart), windowEnd); the window never rescales or      *)
(* shifts a sub-period boundary.                                           *)
(***************************************************************************)
CanonicalClip(m, c) ==
    LET i == SweepIndex(m)
        ps == MahaFullStart(i)
        d == MahaFullEnd(i) - MahaFullStart(i)
        j == CanonPos(m.lord, c.lord)
        s2 == Canon2Start(ps, d, m.lord, j)
        e2 == Canon2End(ps, d, m.lord, j)
    IN  /\ S(c) = Max(s2, VisibleStart)
        /\ E(c) = Min(e2, window_end)
        /\ \A l \in DOMAIN Kids(c) :
              LET g == Kids(c)[l]
                  jj == CanonPos(c.lord, g.lord)
              IN  /\ S(g) = Max(Canon2Start(s2, e2 - s2, c.lord, jj), VisibleStart)
                  /\ E(g) = Min(Canon2End(s2, e2 - s2, c.lord, jj), window_end)

SubPeriodsAreCanonical ==
    (args.from_date = None \/ Val(args.from_date) < window_end) =>
        \A p \in DOMAIN timeline :
            \A q \in DOMAIN Kids(timeline[p]) :
                CanonicalClip(timeline[p], Kids(timeline[p])[q])

(***************************************************************************)
(* C2.  When the window starts at birth, the first Antardasha listed under *)
(* the first Mahadasha starts at birth and is ruled by the lord whose      *)
(* cumulative 120-part share interval contains the elapsed fraction.       *)
(***************************************************************************)
FirstAntardashaCarriesBalance ==
    (pc # "first" /\ window_start = birth_utc /\ birth_utc < window_end /\ depth >= 2) =>
        /\ Len(timeline) >= 1
        /\ timeline[1].lord = start_lord
        /\ Len(Kids(timeline[1])) >= 1
        /\ LET a == Kids(timeline[1])[1]
               j == CanonPos(start_lord, a.lord)
           IN  /\ S(a) = birth_utc
               /\ ShareBefore(start_lord, j) * NAKSHATRA_SPAN_DEG <= nak.within * CYCLE_YEARS
               /\ nak.within * CYCLE_YEARS < ShareBefore(start_lord, j + 1) * NAKSHATRA_SPAN_DEG

(* Ketu Mahadasha, fraction 0.2, window from birth: Venus comes first *)
KetuStartsWithVenus ==
    /\ pc = "done" /\ window_start = birth_utc /\ depth >= 2
    /\ nak.idx0 = 0 /\ nak.within * 5 = NAKSHATRA_SPAN_DEG
    /\ Len(timeline) >= 1
    /\ timeline[1].lord = "Ketu"
    /\ Kids(timeline[1])[1].lord = "Venus"

(***************************************************************************)
(* C3.  Every emitted period, at every level, has reported                 *)
(* start >= windowStart and reported end <= windowEnd.                     *)
(***************************************************************************)
WindowContainment ==
    ForAllNodes(LAMBDA n : S(n) >= window_start /\ E(n) <= window_end)

(***************************************************************************)
(* C4.  For every emitted period with children (window fromUTC < toUTC):   *)
(* the children are contiguous, the first starts at the parent's reported  *)
(* start, the last ends at the parent's reported end, and their            *)
(* durationDays sum to the parent's reported duration.                     *)
(***************************************************************************)
ChildrenTileParent ==
    (window_start < window_end) =>
        ForAllNodes(LAMBDA n : Len(Kids(n)) > 0 => Tiles(n, Kids(n)))

(***************************************************************************)
(* C5.  Subdividing a non-truncated parent [pStart, pEnd) of duration D    *)
(* ruled by L yields exactly 9 children, child j ruled by the j-th lord    *)
(* of the cycle from L with duration D * yearWeight / 120, laid out        *)
(* consecutively from pStart; the durations sum to D and the last child    *)
(* ends at pEnd.                                                           *)
(***************************************************************************)
SubdivisionPartitionsParent ==
    \A p \in DOMAIN timeline :
        LET m == timeline[p]
        IN  /\ (Whole1(m) /\ depth >= 2) =>
                  NinePartTiling(S(m), E(m), m.lord, Kids(m))
            /\ \A q \in DOMAIN Kids(m) :
                  (Whole2(m, Kids(m)[q]) /\ depth >= 3) =>
                      NinePartTiling(S(Kids(m)[q]), E(Kids(m)[q]), Kids(m)[q].lord,
                                     Kids(Kids(m)[q]))

(* a whole Mahadasha with a whole Antardasha, both subdivided *)
WholeParentsSubdivided ==
    /\ pc = "done" /\ depth >= 3
    /\ \E p \in DOMAIN timeline :
          /\ p > 1
          /\ Whole1(timeline[p])
          /\ Len(Kids(timeline[p])) = NUM_LORDS
          /\ Whole2(timeline[p], Kids(timeline[p])[2])
          /\ Len(Kids(Kids(timeline[p])[2])) = NUM_LORDS

(***************************************************************************)
(* C6.  A parent period ruled by lord L always has a period ruled by L as  *)
(* its first listed child.                                                 *)
(***************************************************************************)
CyclicStart ==
    ForAllNodes(LAMBDA n : Len(Kids(n)) > 0 => Kids(n)[1].lord = n.lord)

(* C6 as amended: a parent that is not cut at its start -- its reported    *)
(* start is the start of its canonical interval -- has a period ruled by   *)
(* its own lord as its first listed child.                                 *)
CyclicStartWhenUncut ==
    \A p \in DOMAIN timeline :
        LET m == timeline[p]
            i == SweepIndex(m)
        IN  /\ (S(m) = MahaFullStart(i) /\ Len(Kids(m)) > 0) => Kids(m)[1].lord = m.lord
            /\ \A q \in DOMAIN Kids(m) :
                  LET c == Kids(m)[q]
                  IN  (/\ S(c) = Canon2Start(MahaFullStart(i),
                                             MahaFullEnd(i) - MahaFullStart(i),
                                             m.lord, CanonPos(m.lord, c.lord))
                       /\ Len(Kids(c)) > 0)
                      => Kids(c)[1].lord = c.lord

(* an uncut Mahadasha whose end is cut by the window, with an uncut        *)
(* Antardasha, both with children                                          *)
UncutParentsWithChildren ==
    /\ pc = "done"
    /\ \E p \in DOMAIN timeline :
          LET m == timeline[p]
              i == SweepIndex(m)
          IN  /\ S(m) = MahaFullStart(i)
              /\ E(m) < MahaFullEnd(i)
              /\ Len(Kids(m)) > 1
              /\ Len(Kids(Kids(m)[2])) > 0
              /\ S(Kids(m)[2]) = Canon2Start(MahaFullStart(i),
                                            MahaFullEnd(i) - MahaFullStart(i),
                                            m.lord, CanonPos(m.lord, Kids(m)[2].lord))

(***************************************************************************)
(* C7.  Consecutive emitted level-1 periods meet (end of one = start of    *)
(* the next), are listed in chronological order, and the lord of the next  *)
(* is the cyclic successor of the lord of the previous in the 9-lord       *)
(* table (Mercury wraps to Ketu).                                          *)
(***************************************************************************)
MahadashasContiguousCyclic ==
    \A p \in 1..(Len(timeline) - 1) :
        /\ E(timeline[p]) = S(timeline[p + 1])
        /\ S(timeline[p]) < S(timeline[p + 1])
        /\ E(timeline[p]) < E(timeline[p + 1])
        /\ LordIndex(timeline[p + 1].lord) = (LordIndex(timeline[p].lord) + 1) % NUM_LORDS

(* Mercury followed by Ketu, then Venus *)
MercuryWrapsToKetu ==
    /\ pc = "done"
    /\ Len(timeline) >= 3
    /\ timeline[1].lord = "Mercury"
    /\ timeline[2].lord = "Ketu"
    /\ timeline[3].lord = "Venus"

(***************************************************************************)
(* C8.  The starting lord is lords[nakshatraIndex0 mod 9] with             *)
(* nakshatraIndex0 = floor((moonLongitude mod 360) / 13 deg 20 min); when  *)
(* the window does not clip it, the first emitted Mahadasha is ruled by    *)
(* that lord, starts at birth and lasts                                    *)
(* (1 - fraction) * yearWeight(startLord) * 365.25 days, fraction in [0,1) *)
(* being the Moon's position within its nakshatra.                         *)
(***************************************************************************)
Floor(a, b) == CHOOSE q \in (-FULL_CIRCLE)..FULL_CIRCLE : q * b <= a /\ a < (q + 1) * b

Level1ClippedSweep ==
    /\ \A p \in DOMAIN timeline :
          LET m == timeline[p]
          IN  /\ HasSweepIndex(m)
              /\ Max(MahaSweepStart(SweepIndex(m)), window_start)
                   < Min(MahaFullEnd(SweepIndex(m)), window_end)
              /\ S(m) = Max(MahaSweepStart(SweepIndex(m)), window_start)
              /\ E(m) = Min(MahaFullEnd(SweepIndex(m)), window_end)
    /\ \A i \in 0..(k - 1) :
          (Max(MahaSweepStart(i), window_start) < Min(MahaFullEnd(i), window_end)) =>
              \E p \in DOMAIN timeline :
                  /\ timeline[p].lord = MahaLord(i)
                  /\ S(timeline[p]) = Max(MahaSweepStart(i), window_start)

(* what being the clip of an overlapping period makes of a reported        *)
(* interval: non-empty, and inside the window                              *)
ReportedIsClipOfOverlap(n) ==
    /\ S(n) < E(n)
    /\ S(n) >= window_start
    /\ E(n) <= window_end

HalfOpenWindowClip ==
    /\ Level1ClippedSweep
    /\ ForAllNodes(ReportedIsClipOfOverlap)

(***************************************************************************)
(* C10.  With an as-of instant, every emitted period at every level        *)
(* carries active = (reportedStart <= asOf < reportedEnd); without one,    *)
(* no emitted period carries an active flag.                               *)
(***************************************************************************)
ActiveFlag ==
    ForAllNodes(LAMBDA n :
        IF args.at_date = None
        THEN "active" \notin DOMAIN n
        ELSE /\ "active" \in DOMAIN n
             /\ n.active = (S(n) <= Val(args.at_date) /\ Val(args.at_date) < E(n)))

(* the as-of instant is the end of one period (inactive) and the start of  *)
(* the next (active), with flagged periods at all three levels             *)
AsOfOnBoundary ==
    /\ pc = "done"
    /\ args.at_date # None
    /\ Len(timeline) >= 2
    /\ E(timeline[1]) = Val(args.at_date)
    /\ ~timeline[1].active
    /\ timeline[2].active
    /\ ExistsNode(LAMBDA n : n.level = 3 /\ n.active)
    /\ ExistsNode(LAMBDA n : n.level = 2 /\ ~n.active)

(***************************************************************************)
(* C11: a depth below 1 behaves as 1 and a depth above 3 as 3: the         *)
(* metadata reports the clamped depth, and for a window with from < to the *)
(* levels attached are exactly 1..depth.  At depth 1 no Mahadasha has an   *)
(* antardasha list; at depth 2 every emitted Mahadasha has a non-empty     *)
(* antardasha list and no Antardasha has a pratyantardasha list; at depth  *)
(* 3 every Antardasha has a non-empty pratyantardasha list as well.        *)
(***************************************************************************)
ClampedDepth == Max(1, Min(3, args.depth))

LevelsOf(m) ==
    IF "antardasha" \notin DOMAIN m THEN 1
    ELSE IF Len(m.antardasha) = 0 THEN 0
    ELSE IF \A j \in DOMAIN m.antardasha :
                "pratyantardasha" \notin DOMAIN m.antardasha[j]
    THEN 2
    ELSE IF \A j \in DOMAIN m.antardasha :
                /\ "pratyantardasha" \in DOMAIN m.antardasha[j]
                /\ Len(m.antardasha[j].pratyantardasha) > 0
    THEN 3
    ELSE 0

MIN_MAHADASHA_YEARS == 6

SweepAdvances ==
    (pc = "sweep" /\ pc' = "sweep") =>
        /\ cursor < window_end
        /\ cursor' - cursor >= MIN_MAHADASHA_YEARS * DAYS_PER_YEAR

SweepStops ==
    (pc = "sweep" /\ cursor >= window_end) =>
        (pc' = "done" /\ cursor' = cursor /\ timeline' = timeline)

SweepTerminates ==
    /\ <>(pc = "done")
    /\ [](pc = "done" => cursor >= window_end)
    /\ [][SweepAdvances /\ SweepStops]_vars

(* a call that returned after a whole 120-year sweep                       *)
FullCycleSwept ==
    /\ pc = "done"
    /\ args.to_date = None
    /\ k >= NUM_LORDS
    /\ cursor >= window_end

(***************************************************************************)
(* Degree mapping (utils.py, constants.py).                                *)
(*                                                                         *)
(* An angle is a whole number of arc seconds.  The inputs are multiples of *)
(* a quarter degree: every one of them is a double, and sums, differences, *)
(* floor divisions and remainders of them by 30.0 or 360.0 are exact in    *)
(* double arithmetic.  13 deg 20 min and 3 deg 20 min are not doubles: the *)
(* double nearest to 360/27 lies above it (by 1/1688849860263936) and the  *)
(* double nearest to 10/3 lies above it (by a quarter of that).  The model *)
(* keeps the direction of that rounding and the ratio 4 : 1, as an excess  *)
(* of DOUBLE_EXCESS arc seconds on 3 deg 20 min.  No quarter-degree input  *)
(* is nearer than 300 arc seconds to a multiple of 3 deg 20 min unless it  *)
(* is one, and 27 spans accumulate at most 108 arc seconds of excess, so   *)
(* the excess decides a floor division only where the rounding of the      *)
(* double constant decides it.                                             *)
(***************************************************************************)
DEG == 3600

FULL_TURN == 360 * DEG

DOUBLE_EXCESS == 1

(* constants.py: NAKSHATRA_SPAN_DEG = 360.0 / 27.0 *)
NAKSHATRA_SPAN_DBL == (FULL_TURN \div 27) + 4 * DOUBLE_EXCESS

(* constants.py: PADA_SPAN_DEG = NAKSHATRA_SPAN_DEG / 4.0 *)
PADA_SPAN_DBL == NAKSHATRA_SPAN_DBL \div 4

FIRE_SIGNS == {0, 4, 8}

EARTH_SIGNS == {1, 5, 9}

AIR_SIGNS == {2, 6, 10}

WATER_SIGNS == {3, 7, 11}

norm360(x) == x % FULL_TURN

sign_index(longitude) == longitude \div (30 * DEG)

house_from_sign_unshifted(planet_sign, asc_sign) == (planet_sign - asc_sign + 12) % 12

house_from_sign(planet_sign, asc_sign) == ((planet_sign - asc_sign + 12) % 12) + 1

get_nakshatra_and_pada(longitude_sidereal) ==
    LET lon == longitude_sidereal % FULL_TURN
        nak_index_0 == lon \div NAKSHATRA_SPAN_DBL
        within_nak == lon - nak_index_0 * NAKSHATRA_SPAN_DBL
        pada_1to4 == (within_nak \div PADA_SPAN_DBL) + 1
    IN  [nakshatra_index |-> nak_index_0 + 1, pada |-> pada_1to4]

navamsha_start_all_from_aries(sign_index_0) == 0

_navamsha_start_sign_index_for_element(sign_index_0) ==
    IF sign_index_0 \in FIRE_SIGNS THEN 0
    ELSE IF sign_index_0 \in EARTH_SIGNS THEN 9
    ELSE IF sign_index_0 \in AIR_SIGNS THEN 6
    ELSE 3

get_navamsha_info(longitude_sidereal) ==
    LET lon == longitude_sidereal % FULL_TURN
        base_sign_index == lon \div (30 * DEG)
        deg_in_sign == lon - base_sign_index * (30 * DEG)
        nav_span == ((30 * DEG) \div 9) + DOUBLE_EXCESS
        ordinal_1to9 == (deg_in_sign \div nav_span) + 1
        degree_in_navamsha == deg_in_sign - (ordinal_1to9 - 1) * nav_span
        start_sign == _navamsha_start_sign_index_for_element(base_sign_index)
        nav_sign_index == (start_sign + (ordinal_1to9 - 1)) % 12
    IN  [signIndex |-> nav_sign_index, ordinal |-> ordinal_1to9,
         degreeInNavamsha |-> degree_in_navamsha]

(***************************************************************************)
(* Calls of the degree-mapping functions on a longitude.  The longitudes   *)
(* are the quarter degrees of [0, 360) and MaxOutside more on either side. *)
(***************************************************************************)
MaxOutside == 40

LonStep == DEG \div 4

Longitudes == {i * LonStep : i \in (-MaxOutside)..((FULL_TURN \div LonStep) + MaxOutside)}

(* no dasha timeline is being calculated *)
DashaIdle ==
    /\ args = None
    /\ pc = "idle"
    /\ cursor = 0
    /\ k = 0
    /\ timeline = <<>>
    /\ metadata = None

EngineIdle ==
    /\ _current_ayanamsha_key = None
    /\ sid_mode = None
    /\ requests = <<>>

MapInit ==
    /\ query \in [longitude : Longitudes]
    /\ answer = None
    /\ DashaIdle
    /\ EngineIdle
    /\ ServerIdle

CallNakshatraAndPada ==
    /\ answer = None
    /\ answer' = Some([fn |-> "get_nakshatra_and_pada",
                       out |-> get_nakshatra_and_pada(query.longitude)])
    /\ UNCHANGED <<query, dashaVars, engineVars, serverVars>>

CallNavamshaInfo ==
    /\ answer = None
    /\ answer' = Some([fn |-> "get_navamsha_info",
                       out |-> get_navamsha_info(query.longitude)])
    /\ UNCHANGED <<query, dashaVars, engineVars, serverVars>>

CallSignIndex ==
    /\ answer = None
    /\ answer' = Some([fn |-> "sign_index", out |-> sign_index(query.longitude)])
    /\ UNCHANGED <<query, dashaVars, engineVars, serverVars>>

MapNext == CallNakshatraAndPada \/ CallNavamshaInfo \/ CallSignIndex

MapSpec == MapInit /\ [][MapNext]_vars

(* the call of fn has returned *)
Returned(fn) == answer # None /\ Val(answer).fn = fn

Out == Val(answer).out

(***************************************************************************)
(* C13: for every longitude in [0, 360), get_nakshatra_and_pada returns a  *)
(* nakshatra index in 1..27 and a pada in 1..4 whose cell contains the     *)
(* longitude: (index - 1) * span + (pada - 1) * padaSpan <= longitude <    *)
(* (index - 1) * span + pada * padaSpan, span = 13 deg 20 min, padaSpan =  *)
(* 3 deg 20 min.                                                           *)
(***************************************************************************)
SPAN_13_20 == 13 * DEG + 20 * 60

PADA_SPAN_3_20 == 3 * DEG + 20 * 60

PadaCellContainsLongitude ==
    (Returned("get_nakshatra_and_pada") /\ query.longitude \in 0..(FULL_TURN - 1)) =>
        LET cell == (Out.nakshatra_index - 1) * SPAN_13_20
                    + (Out.pada - 1) * PADA_SPAN_3_20
        IN  /\ Out.nakshatra_index \in 1..27
            /\ Out.pada \in 1..4
            /\ cell <= query.longitude
            /\ query.longitude < cell + PADA_SPAN_3_20

(***************************************************************************)
(* C14: for every longitude get_navamsha_info returns an ordinal in 1..9,  *)
(* a residual in [0, 3 deg 20 min) and signIndex = (anchor + ordinal - 1)  *)
(* mod 12, the anchor being 0 for a fire base sign, 9 for earth, 6 for air *)
(* and 3 for water; 0 deg gives Aries, ordinal 1, residual 0 and 30 deg    *)
(* gives Capricorn, ordinal 1.                                             *)
(***************************************************************************)
Anchor(base_sign) ==
    CASE base_sign \in {0, 4, 8} -> 0
      [] base_sign \in {1, 5, 9} -> 9
      [] base_sign \in {2, 6, 10} -> 6
      [] base_sign \in {3, 7, 11} -> 3

NavamshaInfoCorrect ==
    Returned("get_navamsha_info") =>
        LET base_sign == (query.longitude % FULL_TURN) \div (30 * DEG)
        IN  /\ Out.ordinal \in 1..9
            /\ Out.degreeInNavamsha \in 0..(PADA_SPAN_3_20 - 1)
            /\ Out.signIndex = (Anchor(base_sign) + Out.ordinal - 1) % 12
            /\ query.longitude = 0 =>
                  Out.signIndex = 0 /\ Out.ordinal = 1 /\ Out.degreeInNavamsha = 0
            /\ query.longitude = 30 * DEG => Out.signIndex = 9 /\ Out.ordinal = 1

(* 30 deg, the start of the earth sign Taurus, mapped to Capricorn        *)
TaurusStartsAtCapricorn ==
    /\ Returned("get_navamsha_info")
    /\ query.longitude = 30 * DEG
    /\ Out.signIndex = 9
    /\ Out.ordinal = 1
    /\ Out.degreeInNavamsha = 0

(***************************************************************************)
(* C15: sign_index(longitude) = floor(normalize(longitude) / 30) and lies  *)
(* in 0..11 for every input angle, 360 and negative angles included.       *)
(***************************************************************************)
SignIndexNormalized ==
    Returned("sign_index") =>
        /\ Out = (query.longitude % FULL_TURN) \div (30 * DEG)
        /\ Out \in 0..11

(***************************************************************************)
(* House assignment (engine.py, routes.py, chart_calc.py).  The cardinal   *)
(* angles are multiples of a quarter degree, so thirds of a quadrant arc   *)
(* and halves of the arc between two Madhyas are whole arc seconds.        *)
(***************************************************************************)
whole_sign_cusps_unnormalized(asc_sign) ==
    [i \in 1..12 |-> asc_sign * 30 * DEG + (i - 1) * 30 * DEG]

compute_whole_sign_cusps(asc_sign) ==
    [i \in 1..12 |-> norm360(asc_sign * 30 * DEG + (i - 1) * 30 * DEG)]

arc_no_wrap(start_madhya, end_madhya) == end_madhya - start_madhya

(* engine.py 232-235 and 261-265: the arc from one Madhya forward to the next *)
arc(start_madhya, end_madhya) ==
    IF end_madhya >= start_madhya
    THEN end_madhya - start_madhya
    ELSE (360 * DEG - start_madhya) + end_madhya

(* engine.py 221-252: the twelve Bhava Madhyas in house order *)
madhya_list(asc, ic, dsc, mc) ==
    LET quadrants == <<<<asc, ic>>, <<ic, dsc>>, <<dsc, mc>>, <<mc, asc>>>>
        house_madhya(q, i) ==
            LET start_madhya == quadrants[q][1]
                end_madhya == quadrants[q][2]
                house_span == arc(start_madhya, end_madhya) \div 3
            IN  IF i = 0 THEN start_madhya
                ELSE norm360(start_madhya + i * house_span)
    IN  [h \in 1..12 |-> house_madhya(((h - 1) \div 3) + 1, (h - 1) % 3)]

compute_sripati_cusps(asc, ic, dsc, mc) ==
    LET madhyas == madhya_list(asc, ic, dsc, mc)
    IN  [i \in 1..12 |->
            LET madhya_current == madhyas[i]
                madhya_next == madhyas[(i % 12) + 1]
            IN  norm360(madhya_current + (arc(madhya_current, madhya_next) \div 2))]

(* routes.py 151-163, chart_calc.py 98-109: the explicit-cusp scan *)
house_num(planet_long, cusps) ==
    LET n == Len(cusps)
        next_cusp(i) == IF i < n THEN cusps[i + 1] ELSE cusps[1] + 360 * DEG
        hit(i) == \/ cusps[i] <= planet_long /\ planet_long < next_cusp(i)
                  \/ i = n /\ planet_long >= cusps[i]
    IN  IF \E i \in 1..n : hit(i)
        THEN CHOOSE i \in 1..n : hit(i) /\ \A j \in 1..(i - 1) : ~hit(j)
        ELSE 1

(***************************************************************************)
(* Calls of the house functions.  The cardinal angles are an ascendant and *)
(* three quadrant arcs after it (the fourth, positive, closes the circle): *)
(* they are in cyclic order ASC, IC, DSC, MC.  The planet is anywhere in   *)
(* [0, 360).                                                               *)
(***************************************************************************)
MaxArc == 3

ArcStep == 30 * DEG

AscStep == 50 * DEG

PlanetStep == 5 * DEG

AscLons == {i * AscStep : i \in 0..((FULL_TURN \div AscStep))}

QuadrantArcs == {i * ArcStep : i \in 1..MaxArc}

PlanetLons == {i * PlanetStep : i \in 0..((FULL_TURN \div PlanetStep) - 1)}

Cardinals ==
    {[asc |-> t[1], ic |-> norm360(t[1] + t[2]), dsc |-> norm360(t[1] + t[2] + t[3]),
      mc |-> norm360(t[1] + t[2] + t[3] + t[4])] :
        t \in {u \in AscLons \X QuadrantArcs \X QuadrantArcs \X QuadrantArcs :
                  u[2] + u[3] + u[4] < FULL_TURN}}

(* cusps as the house engine hands them over: equal houses from the        *)
(* ascendant, or the cardinal angles with each quadrant trisected          *)
equal_cusps(asc) == [i \in 1..12 |-> norm360(asc + (i - 1) * 30 * DEG)]

HouseInit ==
    /\ query \in [angles : Cardinals, planet : PlanetLons]
    /\ answer = None
    /\ DashaIdle
    /\ EngineIdle
    /\ ServerIdle

(* routes.py 115, 145-147 and 193-195: the whole-sign policy *)
WholeSignHouse ==
    /\ answer = None
    /\ LET asc_sign == sign_index(query.angles.asc)
           signIndex == sign_index(query.planet)
       IN  answer' = Some([fn |-> "whole_sign",
                           asc_sign |-> asc_sign,
                           signIndex |-> signIndex,
                           house |-> house_from_sign(signIndex, asc_sign),
                           houseCusps |-> compute_whole_sign_cusps(asc_sign)])
    /\ UNCHANGED <<query, dashaVars, engineVars, serverVars>>

(* routes.py 148-163: the explicit-cusp policy *)
ExplicitCuspHouse ==
    /\ answer = None
    /\ \E cusps \in {equal_cusps(query.angles.asc),
                     madhya_list(query.angles.asc, query.angles.ic,
                                 query.angles.dsc, query.angles.mc)} :
          answer' = Some([fn |-> "house_num", cusps |-> cusps,
                          house |-> house_num(query.planet, cusps)])
    /\ UNCHANGED <<query, dashaVars, engineVars, serverVars>>

(* chart_calc.py 114-119: the Bhav Chalit cusps *)
SripatiCusps ==
    /\ answer = None
    /\ answer' = Some([fn |-> "compute_sripati_cusps",
                       madhyas |-> madhya_list(query.angles.asc, query.angles.ic,
                                               query.angles.dsc, query.angles.mc),
                       out |-> compute_sripati_cusps(query.angles.asc, query.angles.ic,
                                                     query.angles.dsc, query.angles.mc)])
    /\ UNCHANGED <<query, dashaVars, engineVars, serverVars>>

(* the arc from a forward to b on the circle, and whether p lies in the    *)
(* cyclic half-open arc [a, b)                                             *)
CircDist(a, b) == (b - a) % FULL_TURN

InArc(a, b, p) == CircDist(a, p) < CircDist(a, b)

(* utils.house_from_cusps, imported by routes.py 10 and chart_calc.py 22:   *)
(* the bucketing rule of the explicit-cusp policy, segments                *)
(* [cusp[i], cusp[i+1]) with the 12th closing on cusp[1] + 360, the first  *)
(* matching segment's number returned; a segment that contains the 0/360   *)
(* seam holds the longitudes on either side of it                          *)
house_from_cusps(longitude, cusps) ==
    LET n == Len(cusps)
        hit(i) == InArc(cusps[i], cusps[(i % n) + 1], norm360(longitude))
    IN  IF \E i \in 1..n : hit(i)
        THEN CHOOSE i \in 1..n : hit(i) /\ \A j \in 1..(i - 1) : ~hit(j)
        ELSE 1

(* routes.py 200-215: a planet placed in the Bhav Chalit houses *)
BhavChalitPlacement ==
    /\ answer = None
    /\ LET sripati_cusps == compute_sripati_cusps(query.angles.asc, query.angles.ic,
                                                  query.angles.dsc, query.angles.mc)
       IN  answer' = Some([fn |-> "house_from_cusps",
                           madhyas |-> madhya_list(query.angles.asc, query.angles.ic,
                                                   query.angles.dsc, query.angles.mc),
                           houseCusps |-> sripati_cusps,
                           house |-> house_from_cusps(query.planet, sripati_cusps)])
    /\ UNCHANGED <<query, dashaVars, engineVars, serverVars>>

HouseNext == WholeSignHouse \/ ExplicitCuspHouse \/ SripatiCusps \/ BhavChalitPlacement

HouseSpec == HouseInit /\ [][HouseNext]_vars

(***************************************************************************)
(* C16: under the whole-sign policy, for every ascendant sign and planet   *)
(* sign in 0..11 the house is ((planetSign - ascSign + 12) mod 12) + 1, in *)
(* 1..12; cusp[i] = (ascSign * 30 + i * 30) mod 360; a planet given house  *)
(* h has its longitude in [cusp[h-1], cusp[h-1] + 30); the ascendant's own *)
(* sign is house 1.                                                        *)
(***************************************************************************)
WholeSignHouseCorrect ==
    Returned("whole_sign") =>
        LET a == Val(answer)
        IN  /\ a.asc_sign \in 0..11 /\ a.signIndex \in 0..11
            /\ a.house = ((a.signIndex - a.asc_sign + 12) % 12) + 1
            /\ a.house \in 1..12
            /\ \A i \in 0..11 :
                  a.houseCusps[i + 1] = ((a.asc_sign * 30 + i * 30) % 360) * DEG
            /\ a.houseCusps[a.house] <= query.planet
            /\ query.planet < a.houseCusps[a.house] + 30 * DEG
            /\ (a.signIndex = a.asc_sign) = (a.house = 1)
            /\ a.houseCusps[1] <= query.angles.asc
            /\ query.angles.asc < a.houseCusps[1] + 30 * DEG

(* ascendant in Pisces, planet in Aries: house 2, across the wrap          *)
PiscesRisingAriesSecond ==
    /\ Returned("whole_sign")
    /\ Val(answer).asc_sign = 11
    /\ Val(answer).signIndex = 0
    /\ Val(answer).house = 2
    /\ Val(answer).houseCusps[2] = 0

(***************************************************************************)
(* C17: for 12 cusps in ascending cyclic order, the wrap through 0 falling *)
(* inside any segment, and a planet longitude p in [0, 360), the explicit- *)
(* cusp lookup returns the unique house h in 1..12 whose cyclic half-open  *)
(* arc from cusp[h-1] to cusp[h mod 12] contains p; with the cusps 350,    *)
(* 20, 50, ... a planet at 355 is in house 1.                              *)
(***************************************************************************)
ExplicitCuspLookup ==
    Returned("house_num") =>
        LET a == Val(answer)
            Holds(h) == InArc(a.cusps[h], a.cusps[(h % 12) + 1], query.planet)
        IN  /\ a.house \in 1..12
            /\ Holds(a.house)
            /\ \A h \in 1..12 : Holds(h) => h = a.house

CyclicOnce(c) ==
    /\ Len(c) = 12
    /\ \A i \in 1..12 : c[i] \in 0..(FULL_TURN - 1)
    /\ Cardinality({i \in 1..12 : c[i] >= c[(i % 12) + 1]}) = 1

CuspsCyclicallyMonotonic ==
    /\ Returned("whole_sign") => CyclicOnce(Val(answer).houseCusps)
    /\ Returned("compute_sripati_cusps") => CyclicOnce(Val(answer).out)

(* Sripati cusps whose single wrap falls strictly inside the list          *)
SripatiWrapInside ==
    /\ Returned("compute_sripati_cusps")
    /\ \E i \in 2..10 : Val(answer).out[i] > Val(answer).out[i + 1]
    /\ Val(answer).out[12] < Val(answer).out[1]

(***************************************************************************)
(* The ephemeris engine and its process-wide settings (engine.py).         *)
(*                                                                         *)
(* Chart requests are served by threads of one process (gunicorn.conf.py:  *)
(* 4 threads per worker).  Each request runs init_ephemeris, then          *)
(* ascendant_and_houses, then compute_planets.  _current_ayanamsha_key is  *)
(* a module global and the sidereal mode is a global of the ephemeris      *)
(* library; nothing locks them, so the statements of two requests          *)
(* interleave freely.  A computed longitude is recorded by the sidereal    *)
(* mode it was computed under and by whether the 0.1 degree offset was     *)
(* subtracted from it.                                                     *)
(***************************************************************************)
AYANAMSHA ==
    [LAHIRI |-> "SIDM_LAHIRI", RAMAN |-> "SIDM_RAMAN",
     KRISHNAMURTI |-> "SIDM_KRISHNAMURTI"]

(* schemas.py 36: the ayanamsha settings a request may select *)
allowed == {"LAHIRI", "RAMAN", "KRISHNAMURTI", "VEDANJANAM"}

NumRequests == 2

MaxPlanets == 2

Request(key) ==
    [ayanamsha |-> key, pc |-> "init", asc |-> None, lng |-> None, planets |-> <<>>]

EngineInit ==
    /\ requests \in {[r \in 1..NumRequests |-> Request(f[r])] :
                        f \in {g \in [1..NumRequests -> allowed] :
                                  \A a, b \in 1..NumRequests : a # b => g[a] # g[b]}}
    /\ _current_ayanamsha_key = None
    /\ sid_mode = None
    /\ query = None
    /\ answer = None
    /\ DashaIdle
    /\ ServerIdle

Goto(r, label) == [requests EXCEPT ![r].pc = label]

(* engine.py 15-17: init_ephemeris stores the key in the module global *)
SetCurrentKey(r) ==
    /\ requests[r].pc = "init"
    /\ _current_ayanamsha_key' = Some(requests[r].ayanamsha)
    /\ requests' = Goto(r, "lookup")
    /\ UNCHANGED <<sid_mode, callVars, dashaVars, serverVars>>

(* engine.py 19: sid_mode = AYANAMSHA[ayanamsha_key]; a key missing from   *)
(* the table raises KeyError and the request ends in an error              *)
LookupSidMode(r) ==
    /\ requests[r].pc = "lookup"
    /\ requests' = Goto(r, IF requests[r].ayanamsha \in DOMAIN AYANAMSHA
                           THEN "set_sid_mode" ELSE "error")
    /\ UNCHANGED <<_current_ayanamsha_key, sid_mode, callVars, dashaVars, serverVars>>

(* engine.py 20: swe.set_sid_mode(sid_mode) *)
SetSidMode(r) ==
    /\ requests[r].pc = "set_sid_mode"
    /\ sid_mode' = Some(AYANAMSHA[requests[r].ayanamsha])
    /\ requests' = Goto(r, "houses_ex")
    /\ UNCHANGED <<_current_ayanamsha_key, callVars, dashaVars, serverVars>>

(* engine.py 140 and 158: swe.houses_ex under the library's sidereal mode *)
HousesEx(r) ==
    /\ requests[r].pc = "houses_ex"
    /\ requests' = [requests EXCEPT ![r].pc = "asc_offset",
                                    ![r].lng = Some([sid |-> Val(sid_mode)])]
    /\ UNCHANGED <<_current_ayanamsha_key, sid_mode, callVars, dashaVars, serverVars>>

(* engine.py 147-151 and 167-172: the offset of the angles *)
AscOffset(r) ==
    /\ requests[r].pc = "asc_offset"
    /\ requests' = [requests EXCEPT
          ![r].pc = "calc_ut",
          ![r].lng = None,
          ![r].asc = Some([sid |-> Val(requests[r].lng).sid,
                           offset |-> _current_ayanamsha_key = Some("VEDANJANAM")])]
    /\ UNCHANGED <<_current_ayanamsha_key, sid_mode, callVars, dashaVars, serverVars>>

(* engine.py 82-96: swe.calc_ut of the next planet *)
CalcUt(r) ==
    /\ requests[r].pc = "calc_ut"
    /\ requests' = [requests EXCEPT ![r].pc = "planet_offset",
                                    ![r].lng = Some([sid |-> Val(sid_mode)])]
    /\ UNCHANGED <<_current_ayanamsha_key, sid_mode, callVars, dashaVars, serverVars>>

(* engine.py 103-116: the offset of the planet, appended to the output *)
PlanetOffset(r) ==
    /\ requests[r].pc = "planet_offset"
    /\ LET out == Append(requests[r].planets,
                         [sid |-> Val(requests[r].lng).sid,
                          offset |-> _current_ayanamsha_key = Some("VEDANJANAM")])
       IN  requests' = [requests EXCEPT
              ![r].pc = IF Len(out) < MaxPlanets THEN "calc_ut" ELSE "done",
              ![r].lng = None,
              ![r].planets = out]
    /\ UNCHANGED <<_current_ayanamsha_key, sid_mode, callVars, dashaVars, serverVars>>

EngineNext ==
    \E r \in 1..NumRequests :
        \/ SetCurrentKey(r)
        \/ LookupSidMode(r)
        \/ SetSidMode(r)
        \/ HousesEx(r)
        \/ AscOffset(r)
        \/ CalcUt(r)
        \/ PlanetOffset(r)

EngineSpec == EngineInit /\ [][EngineNext]_vars

(***************************************************************************)
(* C20: for any interleaving of two computations that select different     *)
(* ayanamsha settings, each computation's output reflects only its own     *)
(* setting: every longitude is computed under the sidereal mode of its own *)
(* request, and the VEDANJANAM offset of 0.1 degree is applied to it if    *)
(* and only if its own request selected VEDANJANAM.                        *)
(***************************************************************************)
OwnSidMode(key) == IF key = "VEDANJANAM" THEN "SIDM_LAHIRI" ELSE AYANAMSHA[key]

OutputsOf(r) ==
    {requests[r].planets[i] : i \in DOMAIN requests[r].planets}
        \cup (IF requests[r].asc = None THEN {} ELSE {Val(requests[r].asc)})

OwnAyanamshaOnly ==
    \A r \in DOMAIN requests : \A o \in OutputsOf(r) :
        /\ o.offset = (requests[r].ayanamsha = "VEDANJANAM")
        /\ o.sid = OwnSidMode(requests[r].ayanamsha)

(***************************************************************************)
(* C27: when the as-of instant lies in [max(birth, windowStart),           *)
(* windowEnd) and windowStart < windowEnd, exactly one emitted period at   *)
(* each attached level is active, the active periods form one chain (the   *)
(* active Antardasha is a child of the active Mahadasha, the active        *)
(* Pratyantardasha a child of the active Antardasha), and no child is      *)
(* active under a parent that is not active.                               *)
(***************************************************************************)
Active1 == {i \in DOMAIN timeline : timeline[i].active}

Active2 ==
    {ij \in UNION {{<<i, j>> : j \in DOMAIN Kids(timeline[i])} : i \in DOMAIN timeline} :
        Kids(timeline[ij[1]])[ij[2]].active}

Active3 ==
    {ijl \in UNION {UNION {{<<i, j, l>> : l \in DOMAIN Kids(Kids(timeline[i])[j])} :
                              j \in DOMAIN Kids(timeline[i])} : i \in DOMAIN timeline} :
        Kids(Kids(timeline[ijl[1]])[ijl[2]])[ijl[3]].active}

AsOfInsideWindow ==
    /\ pc = "done"
    /\ args.at_date # None
    /\ window_start < window_end
    /\ VisibleStart <= Val(args.at_date)
    /\ Val(args.at_date) < window_end

SingleActiveChain ==
    AsOfInsideWindow =>
        /\ Cardinality(Active1) = 1
        /\ depth >= 2 => Cardinality(Active2) = 1
        /\ depth >= 3 => Cardinality(Active3) = 1
        /\ \A ij \in Active2 : ij[1] \in Active1
        /\ \A ijl \in Active3 : <<ijl[1], ijl[2]>> \in Active2

(***************************************************************************)
(* C28: with neither from nor to supplied the window is [birth, birth +    *)
(* 120 years of 365.25 days] and the emitted Mahadashas tile it exactly:   *)
(* they are contiguous from birth to the window end and their durations    *)
(* sum to 120 years.  With an elapsed fraction of 0 there are exactly 9,   *)
(* one per lord; with a fraction above 0 there are exactly 10, the last    *)
(* ruled by the starting lord again and lasting fraction *                 *)
(* yearWeight(startLord) years.                                            *)
(***************************************************************************)
DefaultWindow == args.from_date = None /\ args.to_date = None

PositiveLength(n) == S(n) < E(n) /\ n.durationDays > 0

EmptyWindowEmptyTimeline ==
    /\ ForAllNodes(PositiveLength)
    /\ (window_start >= window_end) => timeline = <<>>

(* the part that holds: with fromUTC < toUTC no emitted period is empty   *)
ProperWindowPositiveLength ==
    (window_start < window_end) => ForAllNodes(PositiveLength)

(***************************************************************************)
(* C30: for every longitude in [0, 360), the signIndex returned by         *)
(* get_navamsha_info equals floor(longitude / 3 deg 20 min) mod 12: the    *)
(* navamsha sign advances by one sign per 3 deg 20 min step, across        *)
(* base-sign boundaries and from 360 deg back to 0 deg as well.            *)
(***************************************************************************)
NavamshaSignContinuous ==
    (Returned("get_navamsha_info") /\ query.longitude \in 0..(FULL_TURN - 1)) =>
        Out.signIndex = (query.longitude \div PADA_SPAN_3_20) % 12

(* the part that holds: strictly inside a navamsha the sign is the global *)
(* navamsha number mod 12                                                  *)
NavamshaSignContinuousInside ==
    (/\ Returned("get_navamsha_info")
     /\ query.longitude \in 0..(FULL_TURN - 1)
     /\ query.longitude % PADA_SPAN_3_20 # 0) =>
        Out.signIndex = (query.longitude \div PADA_SPAN_3_20) % 12

(***************************************************************************)
(* C22: under the Sripati policy the lookup of a longitude in the returned *)
(* Sandhi set gives the house whose Bhava Madhya lies in the same          *)
(* Sandhi-to-Sandhi arc: the longitude of Madhya k resolves to house k,    *)
(* and the Ascendant and every longitude between Sandhi 12/1 and Sandhi    *)
(* 1/2 resolve to house 1.                                                 *)
(***************************************************************************)
MadhyaInOwnHouse ==
    Returned("house_from_cusps") =>
        LET a == Val(answer)
        IN  /\ \A h \in 1..12 : query.planet = a.madhyas[h] => a.house = h
            /\ query.planet = query.angles.asc => a.house = 1
            /\ InArc(a.houseCusps[12], a.houseCusps[1], query.planet) => a.house = 1

(* what the lookup does instead: it numbers the arcs from Sandhi 1/2, so   *)
(* the arc of Madhya k + 1 is called house k                               *)
MadhyaInPreviousHouse ==
    Returned("house_from_cusps") =>
        LET a == Val(answer)
        IN  \A h \in 1..12 : query.planet = a.madhyas[(h % 12) + 1] => a.house = h

(***************************************************************************)
(* Authentication (app/auth.py).  state_tokens and sessions are the        *)
(* module-level dicts of one worker process; the worker runs its requests  *)
(* on threads (gunicorn.conf.py: worker_class gthread, 4 threads), so the  *)
(* statements of two requests interleave.  calls[t] is the request thread  *)
(* t is handling, where it stands and, once answered, its response.        *)
(* history records what was issued, accepted, created and removed so far.  *)
(* Times are in seconds.                                                   *)
(***************************************************************************)
STATE_TTL_SECONDS == 600

ClockStep == STATE_TTL_SECONDS \div 2

MaxClock == 4

MaxIssued == 2

MaxSessions == 1

Threads == 1..NumRequests

People == {[google_sub |-> "sub-a", email |-> "a@example.com"]}

(* a state or session id the server never issued *)
Forged == 0

Idle == [op |-> "idle", pc |-> "idle", arg |-> None, current_time |-> 0, expired_states |-> <<>>, valid |-> None, session |-> None, status |-> 0]

Call(op, label, arg) == [Idle EXCEPT !.op = op, !.pc = label, !.arg = arg]

Remove(store, key) == [x \in DOMAIN store \ {key} |-> store[x]]

Put(store, key, value) == [x \in DOMAIN store \cup {key} |-> IF x = key THEN value ELSE store[x]]

(* generate_state_token and uuid.uuid4 never repeat a value: the n-th one  *)
(* generated is n                                                          *)
generate_state_token == Cardinality(DOMAIN history.issued) + 1

uuid4 == history.created + 1

(* thread t is free to take up a request *)
Free(t) == calls[t].pc \in {"idle", "responded"}

At(t, op, label) == calls[t].op = op /\ calls[t].pc = label

(* the request of thread t is answered; the thread keeps the response      *)
(* until it takes up the next request                                      *)
Respond(t, status) == [calls EXCEPT ![t] = [Call(calls[t].op, "responded", None) EXCEPT !.status = status, !.valid = calls[t].valid]]

NoHistory == [issued |-> <<>>, accepted |-> <<>>, created |-> 0, removed |-> {}, refused |-> {}]

AuthInit ==
    /\ now = 0
    /\ state_tokens = <<>>
    /\ sessions = <<>>
    /\ users = {}
    /\ approved_users \in {{}} \cup {{[email |-> p.email, is_active |-> b]} : p \in People, b \in BOOLEAN}
    /\ profiles = {}
    /\ charts = {}
    /\ notes = {}
    /\ calls = [t \in Threads |-> Idle]
    /\ history = NoHistory
    /\ DashaIdle
    /\ EngineIdle
    /\ query = None
    /\ answer = None

(* time passes *)
Tick ==
    /\ now < MaxClock * ClockStep
    /\ now' = now + ClockStep
    /\ UNCHANGED <<state_tokens, sessions, tableVars, calls, history, dashaVars, callVars, engineVars>>

(* an administrator activates, deactivates or deletes a row of users or of *)
(* approved_users (models.py 50 and 122: is_active)                        *)
SetActive ==
    /\ \/ /\ \E u \in users : users' \in {users \ {u}, (users \ {u}) \cup {[u EXCEPT !.is_active = ~u.is_active]}}
          /\ UNCHANGED approved_users
       \/ /\ \E a \in approved_users : approved_users' \in {approved_users \ {a}, (approved_users \ {a}) \cup {[a EXCEPT !.is_active = ~a.is_active]}}
          /\ UNCHANGED users
    /\ UNCHANGED <<authVars, profiles, charts, notes, calls, history, dashaVars, callVars, engineVars>>

(* auth.py 293-295: google_login issues a state token *)
google_login(t) ==
    /\ Free(t)
    /\ generate_state_token <= MaxIssued
    /\ LET state == generate_state_token
       IN  /\ state_tokens' = Put(state_tokens, state, now)
           /\ history' = [history EXCEPT !.issued = Put(@, state, now), !.accepted = Put(@, state, 0)]
           /\ calls' = [calls EXCEPT ![t] = [Call("google_login", "responded", None) EXCEPT !.status = 302]]
    /\ UNCHANGED <<now, sessions, tableVars, dashaVars, callVars, engineVars>>

(* auth.py 390: the callback hands the state of its query string to        *)
(* validate_state_token                                                    *)
google_callback(t) ==
    /\ Free(t)
    /\ \E state \in Opt({Forged} \cup 1..MaxIssued) : calls' = [calls EXCEPT ![t] = Call("google_callback", "check", state)]
    /\ UNCHANGED <<authVars, tableVars, history, dashaVars, callVars, engineVars>>

(* validate_state_token returns False and the callback answers 400 *)
Invalid(t) == [calls EXCEPT ![t] = [Call(calls[t].op, "responded", None) EXCEPT !.status = 400, !.valid = Some(FALSE)]]

(* auth.py 152-153 *)
validate_check(t) ==
    /\ At(t, "google_callback", "check")
    /\ IF calls[t].arg = None \/ Val(calls[t].arg) \notin DOMAIN state_tokens
       THEN calls' = Invalid(t)
       ELSE calls' = [calls EXCEPT ![t].pc = "scan"]
    /\ UNCHANGED <<authVars, tableVars, history, dashaVars, callVars, engineVars>>

RECURSIVE InOrder(_, _)
InOrder(keys, n) ==
    IF n > MaxIssued THEN <<>>
    ELSE (IF n \in keys THEN <<n>> ELSE <<>>) \o InOrder(keys, n + 1)

(* auth.py 157-158: the clock is read and the iteration over the dict      *)
(* begins; expired_states holds the keys it is going to visit              *)
validate_utcnow(t) ==
    /\ At(t, "google_callback", "scan")
    /\ calls' = [calls EXCEPT ![t].pc = "filter", ![t].current_time = now,
                              ![t].expired_states = InOrder(DOMAIN state_tokens, 1)]
    /\ UNCHANGED <<authVars, tableVars, history, dashaVars, callVars, engineVars>>

(* auth.py 158-161: the tokens older than 10 minutes, in the order of the  *)
(* dict; the iteration raises RuntimeError when another thread has changed *)
(* the size of the dict meanwhile                                          *)
validate_scan(t) ==
    /\ At(t, "google_callback", "filter")
    /\ IF DOMAIN state_tokens # {calls[t].expired_states[i] : i \in DOMAIN calls[t].expired_states}
       THEN calls' = Respond(t, 500)
       ELSE LET current_time == calls[t].current_time
                expired_states == InOrder({s \in DOMAIN state_tokens :
                                              current_time - state_tokens[s] > STATE_TTL_SECONDS}, 1)
            IN  calls' = [calls EXCEPT ![t].pc = "purge", ![t].expired_states = expired_states]
    /\ UNCHANGED <<authVars, tableVars, history, dashaVars, callVars, engineVars>>

(* auth.py 162-163: del raises KeyError for a token another thread has     *)
(* removed meanwhile, and the request ends as a server error               *)
validate_purge(t) ==
    /\ At(t, "google_callback", "purge")
    /\ LET expired_states == calls[t].expired_states
       IN  IF expired_states = <<>>
           THEN calls' = [calls EXCEPT ![t].pc = "state_in"] /\ UNCHANGED state_tokens
           ELSE IF Head(expired_states) \in DOMAIN state_tokens
                THEN /\ state_tokens' = Remove(state_tokens, Head(expired_states))
                     /\ calls' = [calls EXCEPT ![t].expired_states = Tail(expired_states)]
                ELSE calls' = Respond(t, 500) /\ UNCHANGED state_tokens
    /\ UNCHANGED <<now, sessions, tableVars, history, dashaVars, callVars, engineVars>>

(* auth.py 166 *)
validate_state_in(t) ==
    /\ At(t, "google_callback", "state_in")
    /\ IF Val(calls[t].arg) \in DOMAIN state_tokens
       THEN calls' = [calls EXCEPT ![t].pc = "del"]
       ELSE calls' = Invalid(t)
    /\ UNCHANGED <<authVars, tableVars, history, dashaVars, callVars, engineVars>>

(* auth.py 167-168: use once *)
validate_del(t) ==
    /\ At(t, "google_callback", "del")
    /\ LET state == Val(calls[t].arg)
       IN  IF state \in DOMAIN state_tokens
           THEN /\ state_tokens' = Remove(state_tokens, state)
                /\ calls' = [calls EXCEPT ![t].pc = "session", ![t].valid = Some(TRUE)]
                /\ history' = [history EXCEPT !.accepted[state] = @ + 1]
           ELSE calls' = Respond(t, 500) /\ UNCHANGED <<state_tokens, history>>
    /\ UNCHANGED <<now, sessions, tableVars, dashaVars, callVars, engineVars>>

(* db.py 173-229 *)
is_email_approved(email) == \E a \in approved_users : a.email = email /\ a.is_active

(* db.py 116-171: the row of google_sub, updated or created (is_active     *)
(* defaults to true)                                                       *)
get_or_create_user(google_sub, email) ==
    IF \E u \in users : u.google_sub = google_sub
    THEN {IF u.google_sub = google_sub THEN [u EXCEPT !.email = email] ELSE u : u \in users}
    ELSE users \cup {[google_sub |-> google_sub, email |-> email, is_active |-> TRUE]}

(* auth.py 400-600: the rest of the callback.  Google names the person;    *)
(* an approved person gets a users row and a new session                   *)
callback_session(t) ==
    /\ At(t, "google_callback", "session")
    /\ \E user_info \in People :
          IF ~is_email_approved(user_info.email) \/ uuid4 > MaxSessions
          THEN calls' = Respond(t, 302) /\ UNCHANGED <<users, sessions, history>>
          ELSE LET session_id == uuid4
               IN  /\ users' = get_or_create_user(user_info.google_sub, user_info.email)
                   /\ sessions' = Put(sessions, session_id, [user_id |-> user_info.google_sub, email |-> user_info.email])
                   /\ history' = [history EXCEPT !.created = session_id]
                   /\ calls' = Respond(t, 302)
    /\ UNCHANGED <<now, state_tokens, approved_users, profiles, charts, notes, dashaVars, callVars, engineVars>>

(* a protected route calls get_current_user with the cookie of the request *)
protected(t) ==
    /\ Free(t)
    /\ \E session_id \in Opt({Forged} \cup 1..MaxSessions) :
          calls' = [calls EXCEPT ![t] = Call("protected", "cookie", session_id)]
    /\ UNCHANGED <<authVars, tableVars, history, dashaVars, callVars, engineVars>>

(* auth.py 208-229; history notes a refused session id that logout had     *)
(* removed                                                                 *)
get_session(t) ==
    /\ At(t, "protected", "cookie")
    /\ IF calls[t].arg = None \/ Val(calls[t].arg) \notin DOMAIN sessions
       THEN /\ calls' = Respond(t, 401)
            /\ history' = [history EXCEPT !.refused = @ \cup (IF calls[t].arg = None THEN {} ELSE {Val(calls[t].arg)} \cap history.removed)]
       ELSE /\ calls' = [calls EXCEPT ![t].pc = "authorize", ![t].session = Some(sessions[Val(calls[t].arg)])]
            /\ UNCHANGED history
    /\ UNCHANGED <<authVars, tableVars, dashaVars, callVars, engineVars>>

is_user_authorized_users_only(google_sub, email, db_error) ==
    /\ ~db_error
    /\ \E u \in users : u.google_sub = google_sub /\ u.is_active

(* db.py 231-289; a database error denies *)
is_user_authorized(google_sub, email, db_error) ==
    /\ ~db_error
    /\ \E u \in users : u.google_sub = google_sub /\ u.is_active
    /\ \E a \in approved_users : a.email = email /\ a.is_active

(* auth.py 231-269 *)
authorize(t) ==
    /\ At(t, "protected", "authorize")
    /\ \E db_error \in BOOLEAN :
          LET session == Val(calls[t].session)
          IN  IF is_user_authorized(session.user_id, session.email, db_error)
              THEN calls' = Respond(t, 200)
              ELSE calls' = Respond(t, 401)
    /\ UNCHANGED <<authVars, tableVars, history, dashaVars, callVars, engineVars>>

(* auth.py 684-695 *)
logout(t) ==
    /\ Free(t)
    /\ \E session_id \in Opt({Forged} \cup 1..MaxSessions) : calls' = [calls EXCEPT ![t] = Call("logout", "cookie", session_id)]
    /\ UNCHANGED <<authVars, tableVars, history, dashaVars, callVars, engineVars>>

(* auth.py 695 *)
logout_check(t) ==
    /\ At(t, "logout", "cookie")
    /\ IF calls[t].arg # None /\ Val(calls[t].arg) \in DOMAIN sessions
       THEN calls' = [calls EXCEPT ![t].pc = "del"]
       ELSE calls' = Respond(t, 200)
    /\ UNCHANGED <<authVars, tableVars, history, dashaVars, callVars, engineVars>>

(* auth.py 697-698: a KeyError when another logout has removed it *)
logout_del(t) ==
    /\ At(t, "logout", "del")
    /\ LET session_id == Val(calls[t].arg)
       IN  IF session_id \in DOMAIN sessions
           THEN /\ sessions' = Remove(sessions, session_id)
                /\ history' = [history EXCEPT !.removed = @ \cup {session_id}]
                /\ calls' = Respond(t, 200)
           ELSE calls' = Respond(t, 500) /\ UNCHANGED <<sessions, history>>
    /\ UNCHANGED <<now, state_tokens, tableVars, dashaVars, callVars, engineVars>>

(* auth.py 390-400: a callback whose state validate_state_token has        *)
(* accepted                                                                *)
state_accepted(t) ==
    /\ Free(t)
    /\ calls' = [calls EXCEPT ![t] = [Call("google_callback", "session", None) EXCEPT !.valid = Some(TRUE)]]
    /\ UNCHANGED <<authVars, tableVars, history, dashaVars, callVars, engineVars>>

(* login and callback requests on the threads of one worker *)
TokenNext ==
    \/ Tick
    \/ \E t \in Threads :
          \/ google_login(t)
          \/ google_callback(t)
          \/ validate_check(t)
          \/ validate_utcnow(t)
          \/ validate_scan(t)
          \/ validate_purge(t)
          \/ validate_state_in(t)
          \/ validate_del(t)
          \/ callback_session(t)

TokenSpec == AuthInit /\ [][TokenNext]_vars

(* sign-in, protected and logout requests on the threads of one worker *)
SessionNext ==
    \/ SetActive
    \/ \E t \in Threads :
          \/ state_accepted(t)
          \/ callback_session(t)
          \/ protected(t)
          \/ get_session(t)
          \/ authorize(t)
          \/ logout(t)
          \/ logout_check(t)
          \/ logout_del(t)

SessionSpec == AuthInit /\ [][SessionNext]_vars

(***************************************************************************)
(* C24: over any sequence of login and callback requests,                  *)
(* validate_state_token accepts a state value at most once, and only if    *)
(* google_login issued it no more than 600 seconds earlier; a state that   *)
(* was never issued, was already used or has expired is rejected; and an   *)
(* accepted or an expired token is removed from the token store.           *)
(***************************************************************************)
Validating(t) == calls[t].op = "google_callback" /\ calls[t].pc \in {"check", "scan", "filter", "purge", "state_in", "del"}

(* the validation of thread t ends in this step *)
ValidationEnds(t) == Validating(t) /\ calls'[t].pc \in {"session", "responded"}

Issued(state) == state # None /\ Val(state) \in DOMAIN history.issued

(* the validation of thread t has read the clock and found its state older *)
(* than 600 seconds                                                        *)
FoundExpired(t) ==
    /\ calls[t].pc \in {"filter", "purge", "state_in", "del"}
    /\ Issued(calls[t].arg)
    /\ calls[t].current_time - history.issued[Val(calls[t].arg)] > STATE_TTL_SECONDS

AcceptsFreshOnly(t) ==
    (ValidationEnds(t) /\ calls'[t].valid = Some(TRUE)) =>
        /\ Issued(calls[t].arg)
        /\ calls[t].current_time - history.issued[Val(calls[t].arg)] \in 0..STATE_TTL_SECONDS
        /\ history.accepted[Val(calls[t].arg)] = 0
        /\ Val(calls[t].arg) \notin DOMAIN state_tokens'

RejectsStale(t) ==
    (/\ ValidationEnds(t)
     /\ \/ ~Issued(calls[t].arg)
        \/ history.accepted[Val(calls[t].arg)] > 0
        \/ FoundExpired(t)) =>
        /\ calls'[t].valid # Some(TRUE)
        /\ calls[t].arg # None => Val(calls[t].arg) \notin DOMAIN state_tokens'

StateTokenUsedOnce ==
    /\ [](\A s \in DOMAIN history.accepted : history.accepted[s] <= 1)
    /\ [][\A t \in Threads : AcceptsFreshOnly(t) /\ RejectsStale(t)]_vars

(***************************************************************************)
(* C23: get_current_user lets a protected request proceed only if, when    *)
(* the request is handled, the session id of its cookie is in the session  *)
(* store, the users row of the session's google_sub exists and is active   *)
(* and the approved_users row of the session's email exists and is active; *)
(* in every other case, a database error included, it answers 401; and a   *)
(* session id that logout has removed is never accepted again.  The        *)
(* session store is consulted when the request looks its cookie up, the    *)
(* tables when it is authorized.                                           *)
(***************************************************************************)
Answers(t, status) == calls[t].pc # "responded" /\ calls'[t].pc = "responded" /\ calls'[t].status = status

RowsActive(session) ==
    /\ \E u \in users : u.google_sub = session.user_id /\ u.is_active
    /\ \E a \in approved_users : a.email = session.email /\ a.is_active

LooksUpSession(t) ==
    (At(t, "protected", "cookie") /\ calls'[t] # calls[t]) =>
        IF calls[t].arg # None /\ Val(calls[t].arg) \in DOMAIN sessions
        THEN /\ calls'[t].pc = "authorize"
             /\ calls'[t].session = Some(sessions[Val(calls[t].arg)])
             /\ Val(calls[t].arg) \notin history.removed
        ELSE Answers(t, 401)

Authorizes(t) ==
    (At(t, "protected", "authorize") /\ calls'[t] # calls[t]) =>
        /\ Answers(t, 200) \/ Answers(t, 401)
        /\ Answers(t, 200) => RowsActive(Val(calls[t].session))

ProceedsOnlyAuthorized(t) ==
    (calls[t].op = "protected" /\ Answers(t, 200)) => At(t, "protected", "authorize")

SessionGate ==
    /\ [](DOMAIN sessions \cap history.removed = {})
    /\ [][\A t \in Threads : LooksUpSession(t) /\ Authorizes(t) /\ ProceedsOnlyAuthorized(t)]_vars

(* a request has proceeded, and one that carried a session id logout had   *)
(* removed was answered 401                                                *)
LoggedOutCookieRefused ==
    /\ \E t \in Threads : At(t, "protected", "responded") /\ calls[t].status = 200
    /\ history.refused # {}

(***************************************************************************)
(* Profiles, cached charts and analysis notes: the endpoints of routes.py  *)
(* over the tables of models.py, each request one database transaction.    *)
(* A datetime is the minute count of the wall clock, a chart is its        *)
(* metadata together with the inputs its positions were calculated from.   *)
(***************************************************************************)

MaxProfiles == 2

MaxCharts == 2

MaxNotes == 1

Users == {[id |-> u, is_active |-> TRUE] : u \in {"user-a", "user-b"}}

Datetimes == {0}

Zones == {"UTC"}

Offsets == {}

BirthLatitudes == {19}

BirthLongitudes == {77}

Ayanamshas == {"RAMAN"}

NodeTypes == {"MEAN"}

NoteTexts == {"first", "second"}

config_AYANAMSHA == "VEDANJANAM"

config_HOUSE_SYSTEM == "WHOLE_SIGN"

ChartRequest == [datetime : Datetimes, tz : Opt(Zones), utcOffsetMinutes : Opt(Offsets), latitude : BirthLatitudes, longitude : BirthLongitudes, houseSystem : {None}, ayanamsha : Opt(Ayanamshas), nodeType : NodeTypes]

ProfileUpdateRequest == [datetime : Opt(Datetimes), tz : Opt(Zones), utcOffsetMinutes : Opt(Offsets), latitude : Opt(BirthLatitudes), ayanamsha : Opt(Ayanamshas \cup {config_AYANAMSHA})]

Or(opt, default) == IF opt = None THEN default ELSE Val(opt)

utcoffset(zone) == IF zone = "Asia/Kolkata" THEN 330 ELSE 0

detect_timezone_from_coordinates(latitude, longitude) == IF 6 <= latitude /\ latitude <= 37 /\ 68 <= longitude /\ longitude <= 97 THEN "Asia/Kolkata" ELSE "UTC"

to_utc(dt_iso, tz, offset_minutes, latitude, longitude) ==
    IF tz # None THEN dt_iso - utcoffset(Val(tz))
    ELSE IF offset_minutes # None THEN dt_iso - Val(offset_minutes)
    ELSE dt_iso - utcoffset(detect_timezone_from_coordinates(latitude, longitude))

format_utc_offset(offset_minutes) ==
    LET magnitude == IF offset_minutes >= 0 THEN offset_minutes ELSE -offset_minutes
    IN  <<IF offset_minutes >= 0 THEN "+" ELSE "-", magnitude \div 60, magnitude % 60>>

calculate_chart(datetime, tz, offset_minutes, latitude, longitude, house_system, ayanamsha, node_type) ==
    LET dt_utc == to_utc(datetime, tz, offset_minutes, latitude, longitude)
    IN  [metadata |-> [ayanamsha |-> ayanamsha, houseSystem |-> house_system, nodeType |-> node_type, datetimeInput |-> datetime, tzApplied |-> IF tz # None THEN Val(tz) ELSE format_utc_offset(Or(offset_minutes, 0)), datetimeUTC |-> dt_utc],
         positions |-> [jd_ut |-> dt_utc, latitude |-> latitude, longitude |-> longitude, house_system |-> house_system, ayanamsha |-> ayanamsha, node_type |-> node_type]]

calculate_chart_for_profile(profile) == calculate_chart(profile.datetime, profile.tz, profile.utc_offset_minutes, profile.latitude, profile.longitude, profile.house_system, profile.ayanamsha, profile.node_type)

SameBirth(p, user_id, datetime, latitude, longitude, house_system, ayanamsha, node_type) ==
    /\ p.user_id = user_id
    /\ p.datetime = datetime
    /\ p.latitude = latitude
    /\ p.longitude = longitude
    /\ p.house_system = house_system
    /\ p.ayanamsha = ayanamsha
    /\ p.node_type = node_type

ServesRequests(rows) ==
    /\ now = 0
    /\ state_tokens = <<>>
    /\ sessions = <<>>
    /\ users = rows
    /\ approved_users = {}
    /\ calls = <<>>
    /\ DashaIdle
    /\ EngineIdle
    /\ query = None
    /\ answer = None

ChartInit ==
    /\ ServesRequests({u \in Users : u.id = "user-a"})
    /\ profiles = {}
    /\ charts = {}
    /\ notes = {}
    /\ history = [profiles |-> 0, charts |-> 0, notes |-> 0]

AccessInit ==
    /\ ServesRequests(Users)
    /\ \E tz \in Opt(Zones), is_active \in BOOLEAN : profiles = {[id |-> 1, user_id |-> "user-a", datetime |-> CHOOSE d \in Datetimes : TRUE, tz |-> tz, utc_offset_minutes |-> None, latitude |-> CHOOSE l \in BirthLatitudes : TRUE, longitude |-> CHOOSE l \in BirthLongitudes : TRUE, house_system |-> config_HOUSE_SYSTEM, ayanamsha |-> config_AYANAMSHA, node_type |-> CHOOSE n \in NodeTypes : TRUE, is_active |-> is_active]}
    /\ charts = {}
    /\ notes = {}
    /\ history = [profiles |-> 1, charts |-> 0, notes |-> 0]

get_cached_chart(profile_id) == IF \E c \in charts : c.profile_id = profile_id THEN Some(CHOOSE c \in charts : c.profile_id = profile_id) ELSE None

save_chart(profile_id, chart_data) ==
    IF \E c \in charts : c.profile_id = profile_id
    THEN {IF c.profile_id = profile_id THEN [c EXCEPT !.data = chart_data] ELSE c : c \in charts}
    ELSE charts \cup {[id |-> history.charts + 1, profile_id |-> profile_id, data |-> chart_data]}

Reply(status, profile_id, chart, cached) == [status |-> status, profile_id |-> profile_id, chart_id |-> IF chart = None THEN None ELSE Some(Val(chart).id), chart |-> IF chart = None THEN None ELSE Some(Val(chart).data), cached |-> cached]

chart(user, payload, cache_error) ==
    LET house_system == Or(payload.houseSystem, config_HOUSE_SYSTEM)
        ayanamsha == Or(payload.ayanamsha, config_AYANAMSHA)
        found == {p \in profiles : SameBirth(p, user.id, payload.datetime, payload.latitude, payload.longitude, house_system, ayanamsha, payload.nodeType)}
        profile == IF found # {} THEN CHOOSE p \in found : TRUE
                   ELSE [id |-> history.profiles + 1, user_id |-> user.id, datetime |-> payload.datetime, tz |-> payload.tz, utc_offset_minutes |-> payload.utcOffsetMinutes, latitude |-> payload.latitude, longitude |-> payload.longitude, house_system |-> house_system, ayanamsha |-> ayanamsha, node_type |-> payload.nodeType, is_active |-> TRUE]
        cached_chart == IF cache_error THEN None ELSE get_cached_chart(profile.id)
        chart_data == calculate_chart(payload.datetime, payload.tz, payload.utcOffsetMinutes, payload.latitude, payload.longitude, house_system, ayanamsha, payload.nodeType)
    IN  /\ user \in users
        /\ found # {} \/ history.profiles < MaxProfiles
        /\ get_cached_chart(profile.id) # None \/ history.charts < MaxCharts
        /\ query' = [fn |-> "chart", user_id |-> user.id, profile_id |-> None, note_id |-> None, payload |-> Some(payload)]
        /\ profiles' = profiles \cup {profile}
        /\ charts' = IF cached_chart # None THEN charts ELSE save_chart(profile.id, chart_data)
        /\ history' = [history EXCEPT !.profiles = IF found # {} THEN @ ELSE @ + 1, !.charts = IF get_cached_chart(profile.id) # None THEN @ ELSE @ + 1]
        /\ answer' = Reply(200, Some(profile.id), Some(CHOOSE c \in charts' : c.profile_id = profile.id), cached_chart # None)
        /\ UNCHANGED <<dashaVars, engineVars, authVars, users, approved_users, notes, calls>>

get_user_profile_any_owner(profile_id, user_id, db_error) ==
    IF db_error THEN [profile |-> None, status |-> 500]
    ELSE IF ~\E p \in profiles : p.id = profile_id /\ p.is_active THEN [profile |-> None, status |-> 404]
    ELSE [profile |-> Some(CHOOSE p \in profiles : p.id = profile_id /\ p.is_active), status |-> 200]

get_user_profile(profile_id, user_id, db_error) ==
    IF db_error THEN [profile |-> None, status |-> 500]
    ELSE IF ~\E p \in profiles : p.id = profile_id /\ p.is_active THEN [profile |-> None, status |-> 404]
    ELSE LET profile == CHOOSE p \in profiles : p.id = profile_id /\ p.is_active
         IN  IF profile.user_id # user_id THEN [profile |-> None, status |-> 403]
             ELSE [profile |-> Some(profile), status |-> 200]

get_chart_by_profile(user, profile_id, db_error, cache_error) ==
    LET loaded == get_user_profile(profile_id, user.id, db_error)
        profile == Val(loaded.profile)
        cached_chart == IF cache_error THEN None ELSE get_cached_chart(profile_id)
    IN  /\ user \in users
        /\ query' = [fn |-> "get_chart_by_profile", user_id |-> user.id, profile_id |-> Some(profile_id), note_id |-> None, payload |-> None]
        /\ IF loaded.profile = None
           THEN /\ answer' = Reply(loaded.status, None, None, FALSE)
                /\ UNCHANGED <<charts, history>>
           ELSE /\ get_cached_chart(profile_id) # None \/ history.charts < MaxCharts
                /\ charts' = IF cached_chart # None THEN charts ELSE save_chart(profile_id, calculate_chart_for_profile(profile))
                /\ history' = [history EXCEPT !.charts = IF get_cached_chart(profile_id) # None THEN @ ELSE @ + 1]
                /\ answer' = Reply(200, Some(profile_id), Some(CHOOSE c \in charts' : c.profile_id = profile_id), cached_chart # None)
        /\ UNCHANGED <<dashaVars, engineVars, authVars, users, approved_users, profiles, notes, calls>>

AnalysisNote_cascade(chart_ids) == {n \in notes : n.chart_id \notin chart_ids}

chart_affecting_fields == {"datetime", "latitude", "longitude", "house_system", "ayanamsha", "node_type"}

field_mapping == [name |-> "name", datetime |-> "datetime", tz |-> "tz", utcOffsetMinutes |-> "utc_offset_minutes", latitude |-> "latitude", longitude |-> "longitude", houseSystem |-> "house_system", ayanamsha |-> "ayanamsha", nodeType |-> "node_type"]

update_profile_endpoint(user, profile_id, updates, db_error) ==
    LET loaded == get_user_profile(profile_id, user.id, db_error)
        profile == Val(loaded.profile)
        given == {key \in DOMAIN updates : updates[key] # None}
        chart_invalidation_needed == \E key \in given : field_mapping[key] \in chart_affecting_fields
        updated == [profile EXCEPT !.datetime = Or(updates.datetime, @), !.tz = IF updates.tz = None THEN @ ELSE updates.tz, !.utc_offset_minutes = IF updates.utcOffsetMinutes = None THEN @ ELSE updates.utcOffsetMinutes, !.latitude = Or(updates.latitude, @), !.ayanamsha = Or(updates.ayanamsha, @)]
        conflicting_profile == \E p \in profiles : p.id # profile_id /\ SameBirth(p, user.id, updated.datetime, updated.latitude, updated.longitude, updated.house_system, updated.ayanamsha, updated.node_type)
        deleted == IF chart_invalidation_needed THEN {c \in charts : c.profile_id = profile_id} ELSE {}
    IN  /\ user \in users
        /\ query' = [fn |-> "update_profile", user_id |-> user.id, profile_id |-> Some(profile_id), note_id |-> None, payload |-> None]
        /\ IF loaded.profile = None
           THEN /\ answer' = Reply(loaded.status, None, None, FALSE)
                /\ UNCHANGED <<profiles, charts, notes>>
           ELSE IF given = {}
           THEN /\ answer' = Reply(200, Some(profile_id), None, FALSE)
                /\ UNCHANGED <<profiles, charts, notes>>
           ELSE IF conflicting_profile
           THEN /\ answer' = Reply(409, None, None, FALSE)
                /\ UNCHANGED <<profiles, charts, notes>>
           ELSE /\ profiles' = (profiles \ {profile}) \cup {updated}
                /\ charts' = charts \ deleted
                /\ notes' = AnalysisNote_cascade({c.id : c \in deleted})
                /\ answer' = Reply(200, Some(profile_id), None, FALSE)
        /\ UNCHANGED <<dashaVars, engineVars, authVars, users, approved_users, calls, history>>

delete_profile_endpoint(user, profile_id, db_error) ==
    LET loaded == get_user_profile(profile_id, user.id, db_error)
        deleted == {c \in charts : c.profile_id = profile_id}
    IN  /\ user \in users
        /\ query' = [fn |-> "delete_profile", user_id |-> user.id, profile_id |-> Some(profile_id), note_id |-> None, payload |-> None]
        /\ IF loaded.profile = None
           THEN /\ answer' = Reply(loaded.status, None, None, FALSE)
                /\ UNCHANGED <<profiles, charts, notes>>
           ELSE /\ profiles' = profiles \ {Val(loaded.profile)}
                /\ charts' = charts \ deleted
                /\ notes' = AnalysisNote_cascade({c.id : c \in deleted})
                /\ answer' = Reply(200, Some(profile_id), None, FALSE)
        /\ UNCHANGED <<dashaVars, engineVars, authVars, users, approved_users, calls, history>>

create_profile_note(user, profile_id, note, db_error) ==
    LET loaded == get_user_profile(profile_id, user.id, db_error)
        profile_chart == get_cached_chart(profile_id)
    IN  /\ user \in users
        /\ query' = [fn |-> "create_profile_note", user_id |-> user.id, profile_id |-> Some(profile_id), note_id |-> None, payload |-> None]
        /\ IF loaded.profile = None
           THEN /\ answer' = Reply(loaded.status, None, None, FALSE)
                /\ UNCHANGED <<notes, history>>
           ELSE IF profile_chart = None
           THEN /\ answer' = Reply(400, None, None, FALSE)
                /\ UNCHANGED <<notes, history>>
           ELSE /\ history.notes < MaxNotes
                /\ notes' = notes \cup {[id |-> history.notes + 1, chart_id |-> Val(profile_chart).id, note |-> note]}
                /\ history' = [history EXCEPT !.notes = @ + 1]
                /\ answer' = Reply(201, Some(profile_id), None, FALSE)
        /\ UNCHANGED <<dashaVars, engineVars, authVars, users, approved_users, profiles, charts, calls>>

NoteOwner(n) == (CHOOSE p \in profiles : \E c \in charts : c.id = n.chart_id /\ c.profile_id = p.id).user_id

update_note_endpoint(user, note_id, note) ==
    LET existing_note == {n \in notes : n.id = note_id}
    IN  /\ user \in users
        /\ query' = [fn |-> "update_note", user_id |-> user.id, profile_id |-> None, note_id |-> Some(note_id), payload |-> None]
        /\ IF existing_note = {}
           THEN /\ answer' = Reply(404, None, None, FALSE)
                /\ UNCHANGED notes
           ELSE IF \E n \in existing_note : NoteOwner(n) # user.id
           THEN /\ answer' = Reply(403, None, None, FALSE)
                /\ UNCHANGED notes
           ELSE /\ notes' = {IF n.id = note_id THEN [n EXCEPT !.note = note] ELSE n : n \in notes}
                /\ answer' = Reply(200, None, None, FALSE)
        /\ UNCHANGED <<dashaVars, engineVars, authVars, users, approved_users, profiles, charts, calls, history>>

delete_note_endpoint(user, note_id) ==
    LET existing_note == {n \in notes : n.id = note_id}
    IN  /\ user \in users
        /\ query' = [fn |-> "delete_note", user_id |-> user.id, profile_id |-> None, note_id |-> Some(note_id), payload |-> None]
        /\ IF existing_note = {}
           THEN /\ answer' = Reply(404, None, None, FALSE)
                /\ UNCHANGED notes
           ELSE IF \E n \in existing_note : NoteOwner(n) # user.id
           THEN /\ answer' = Reply(403, None, None, FALSE)
                /\ UNCHANGED notes
           ELSE /\ notes' = notes \ existing_note
                /\ answer' = Reply(204, None, None, FALSE)
        /\ UNCHANGED <<dashaVars, engineVars, authVars, users, approved_users, profiles, charts, calls, history>>

Deactivate(profile_id) ==
    /\ \E p \in profiles : p.id = profile_id
    /\ profiles' = {IF p.id = profile_id THEN [p EXCEPT !.is_active = ~@] ELSE p : p \in profiles}
    /\ query' = [fn |-> "Deactivate", user_id |-> "administrator", profile_id |-> Some(profile_id), note_id |-> None, payload |-> None]
    /\ answer' = None
    /\ UNCHANGED <<dashaVars, engineVars, authVars, users, approved_users, charts, notes, calls, history>>

ChartNext ==
    \/ \E user \in Users, payload \in ChartRequest, cache_error \in BOOLEAN : chart(user, payload, cache_error)
    \/ \E user \in Users, profile_id \in 1..MaxProfiles, db_error \in BOOLEAN, cache_error \in BOOLEAN : get_chart_by_profile(user, profile_id, db_error, cache_error)
    \/ \E user \in Users, profile_id \in 1..MaxProfiles, updates \in ProfileUpdateRequest, db_error \in BOOLEAN : update_profile_endpoint(user, profile_id, updates, db_error)
    \/ \E user \in Users, profile_id \in 1..MaxProfiles, note \in NoteTexts, db_error \in BOOLEAN : create_profile_note(user, profile_id, note, db_error)

ChartSpec == ChartInit /\ [][ChartNext]_vars

AccessNext ==
    \/ \E user \in Users, profile_id \in 1..MaxProfiles, db_error \in BOOLEAN, cache_error \in BOOLEAN : get_chart_by_profile(user, profile_id, db_error, cache_error)
    \/ \E user \in Users, profile_id \in 1..MaxProfiles, updates \in ProfileUpdateRequest, db_error \in BOOLEAN : update_profile_endpoint(user, profile_id, updates, db_error)
    \/ \E user \in Users, profile_id \in 1..MaxProfiles, db_error \in BOOLEAN : delete_profile_endpoint(user, profile_id, db_error)
    \/ \E user \in Users, profile_id \in 1..MaxProfiles, note \in NoteTexts, db_error \in BOOLEAN : create_profile_note(user, profile_id, note, db_error)
    \/ \E user \in Users, note_id \in 1..MaxNotes, note \in NoteTexts : update_note_endpoint(user, note_id, note)
    \/ \E user \in Users, note_id \in 1..MaxNotes : delete_note_endpoint(user, note_id)
    \/ \E profile_id \in 1..MaxProfiles : Deactivate(profile_id)

AccessSpec == AccessInit /\ [][AccessNext]_vars

(***************************************************************************)
(* C25: who may read, change or delete a profile and its notes             *)
(***************************************************************************)

ProfileRequest == {"get_chart_by_profile", "update_profile", "delete_profile", "create_profile_note"}

NoteRequest == {"update_note", "delete_note"}

Requested(fns) == query'.fn \in fns

Owns(user_id, profile_id) == \E p \in profiles : p.id = profile_id /\ p.is_active /\ p.user_id = user_id

TablesUnchanged == profiles' = profiles /\ charts' = charts /\ notes' = notes

(* a profile request succeeds or changes a table only for the owner of an active profile *)
OnlyOwnerOfActive == Requested(ProfileRequest) /\ (answer'.status \in {200, 201} \/ ~TablesUnchanged) => Owns(query'.user_id, Val(query'.profile_id))

(* a note is changed or removed only by the owner of the profile of its chart *)
NoteOwnerOnly == Requested(NoteRequest) /\ notes' # notes => \A n \in notes : n.id = Val(query'.note_id) => NoteOwner(n) = query'.user_id

(* as the claim words it: 403 for a profile of another user, 404 when no row has the id *)
RefusedAsStated ==
    Requested(ProfileRequest) =>
        /\ (\E p \in profiles : p.id = Val(query'.profile_id) /\ p.user_id # query'.user_id) => answer'.status = 403 /\ TablesUnchanged
        /\ (~\E p \in profiles : p.id = Val(query'.profile_id)) => answer'.status = 404 /\ TablesUnchanged

(* as the code answers: 403 for an active profile of another user, 404 when no active row has the id, 500 when the query fails *)
RefusedAsCoded ==
    Requested(ProfileRequest) =>
        /\ (\E p \in profiles : p.id = Val(query'.profile_id) /\ p.is_active /\ p.user_id # query'.user_id) => answer'.status \in {403, 500} /\ TablesUnchanged
        /\ (~\E p \in profiles : p.id = Val(query'.profile_id) /\ p.is_active) => answer'.status \in {404, 500} /\ TablesUnchanged
        /\ answer'.status = 403 => \E p \in profiles : p.id = Val(query'.profile_id) /\ p.is_active /\ p.user_id # query'.user_id

(* C25 as stated: a profile is returned, updated or deleted only for the   *)
(* owner of an active profile; any other user gets 403, or 404 when the    *)
(* profile does not exist, and the profile, its chart and its notes stay   *)
(* as they were; a note is updated or deleted only by the owner of the     *)
(* profile of its chart.                                                   *)
OwnerOnlyAccess == [][OnlyOwnerOfActive /\ RefusedAsStated /\ NoteOwnerOnly]_vars

(* C25 amended: the same, with 404 also for a profile that is not active   *)
(* (whoever asks) and 500 when the database query fails.                   *)
OwnerOnlyAccessActive == [][OnlyOwnerOfActive /\ RefusedAsCoded /\ NoteOwnerOnly]_vars

(* another user's delete of a profile that has a chart with a note was answered 403 *)
StrangerRefused ==
    /\ DOMAIN query # {}
    /\ query.fn = "delete_profile"
    /\ answer.status = 403
    /\ \E p \in profiles, c \in charts, n \in notes : p.id = Val(query.profile_id) /\ p.user_id # query.user_id /\ c.profile_id = p.id /\ n.chart_id = c.id

(***************************************************************************)
(* C21: what update_profile does to the chart and its notes                *)
(***************************************************************************)

Row(rows, profile_id) == CHOOSE p \in rows : p.id = profile_id

ChartAffected(before, after) == \E f \in chart_affecting_fields : before[f] # after[f]

UpdatedAffecting == query'.fn = "update_profile" /\ answer'.status = 200 /\ ChartAffected(Row(profiles, Val(query'.profile_id)), Row(profiles', Val(query'.profile_id)))

ChartKeptAndRefreshed(profile_id) ==
    \A c \in charts : c.profile_id = profile_id =>
        /\ \E d \in charts' : d.id = c.id /\ d.profile_id = profile_id /\ d.data = calculate_chart_for_profile(Row(profiles', profile_id))
        /\ {n \in notes : n.chart_id = c.id} \subseteq notes'

(* C21: an update of chart-affecting fields through update_profile leaves  *)
(* the profile's chart in existence under the same chart id, leaves every  *)
(* note attached to that chart in place, and makes the chart's stored data *)
(* the calculation for the updated settings.                               *)
UpdateKeepsChart == [][UpdatedAffecting => ChartKeptAndRefreshed(Val(query'.profile_id))]_vars

(***************************************************************************)
(* C26: the chart a POST /chart request receives                           *)
(***************************************************************************)

FreshChart(payload) == calculate_chart(payload.datetime, payload.tz, payload.utcOffsetMinutes, payload.latitude, payload.longitude, Or(payload.houseSystem, config_HOUSE_SYSTEM), Or(payload.ayanamsha, config_AYANAMSHA), payload.nodeType)

ReceivesFreshChart == query'.fn = "chart" /\ answer'.status = 200 => Val(answer'.chart) = FreshChart(Val(query'.payload))

DifferOnlyInZone(p, q) == (p.tz # q.tz \/ p.utcOffsetMinutes # q.utcOffsetMinutes) /\ [p EXCEPT !.tz = None, !.utcOffsetMinutes = None] = [q EXCEPT !.tz = None, !.utcOffsetMinutes = None]

ZoneChangeMissesCache ==
    DOMAIN query # {} /\ query.fn = "chart" /\ query'.fn = "chart" /\ query.user_id = query'.user_id /\ DifferOnlyInZone(Val(query.payload), Val(query'.payload))
        => ~(answer'.cached /\ answer'.chart_id = answer.chart_id)

(* C26: through any sequence of POST /chart requests and profile updates   *)
(* by one user, the chart a request receives, cached or newly calculated,  *)
(* is the chart a fresh calculation from that request's own inputs gives,  *)
(* and a request that differs from the one before it only in tz or         *)
(* utcOffsetMinutes is not served the cached chart that one received.      *)
CachedChartIsFresh == [][ReceivesFreshChart /\ ZoneChangeMissesCache]_vars

====
